---- MODULE Spec2Model ----
(***************************************************************************)
(* A model of the obligation execution engine of mvp/src: the Tool        *)
(* Registry (core/tools.py), the Cache Key Engine (core/cache.py) and the *)
(* Conductor (conductor/conductor.py).                                     *)
(*                                                                         *)
(* Python's None is the string "none" wherever a string is expected; a    *)
(* dict is a TLA+ function whose DOMAIN is the set of keys present.       *)
(* SHA-256 is modelled as a collision-free encoding: a digest is the      *)
(* value that was hashed.                                                  *)
(***************************************************************************)
EXTENDS Integers, Sequences, FiniteSets, TLC

None == "none"

Has(d, k) == k \in DOMAIN d

Get(d, k) == IF k \in DOMAIN d THEN d[k] ELSE None

Range(s) == {s[j] : j \in 1..Len(s)}

RECURSIVE SeqSum(_)
SeqSum(s) == IF s = << >> THEN 0 ELSE Head(s) + SeqSum(Tail(s))

(***************************************************************************)
(* Bounds of the model.                                                    *)
(***************************************************************************)
MaxBatch == 2

MaxRequests == 1

MaxProbes == 2

MaxStamp == 2

MaxSeed == 3

VARIABLES
    world,      \* the external state dependencies observe: files, environment
    probes,     \* the compute_input_hash calls made so far, with the world seen
    depends,    \* the depends_on list of the probed tool
    regA,       \* a registry: the contracts in one load order
    regB,       \* the same contracts in another load order
    ask,        \* the (type, payload, seed) select_best_tool is asked for
    picked,     \* the tools the two registries returned
    db,         \* the store: events, obligations, assertions, tool runs
    capability_budget,  \* Conductor.capability_budget
    req,        \* the process_request call in progress
    trace,      \* what the last process_request returned
    log,        \* what the conductor did for the request, in order
    other,      \* the request of the thread that is not running: req, trace, log
    canon,      \* two input maps given to compute_input_hash, and their keys
    verification,  \* the execution results given to the verify loop, and its result
    conn        \* IRDatabase.conn and IRDatabase._lock: who holds the lock, where each thread is

vars == <<world, probes, depends, regA, regB, ask, picked,
          db, capability_budget, req, trace, log, other, canon, verification, conn>>

conductorVars == <<db, capability_budget, req, trace, log, other, canon, verification, conn>>

\* No input maps hashed yet.
NoCanon == [a |-> << >>, b |-> << >>, hashed |-> FALSE, key_a |-> << >>, key_b |-> << >>]

\* The two threads that share the IRDatabase object.
Threads == {1, 2}

NoStep == [thread |-> 0, method |-> "none", step |-> "none", held |-> TRUE]

\* The lock free, no thread inside a method of the store.
ConnIdle ==
    [lock |-> 0, method |-> [t \in Threads |-> "none"], pc |-> [t \in Threads |-> 0],
     last |-> NoStep]

\* No execution results verified yet.
NoVerification ==
    [verify_enabled |-> FALSE, execution_results |-> << >>, returned |-> FALSE,
     passed |-> TRUE, method |-> "none", details |-> << >>, evidence |-> << >>]

\* The conductor before any request.
EmptyDb == [events |-> << >>, obls |-> << >>, asserts |-> << >>, runs |-> << >>]

NoRequest ==
    [phase |-> "idle", trace_id |-> 0, obligations |-> << >>,
     capability_budgets |-> << >>, ids |-> << >>, results |-> << >>]

NoTrace == [trace_id |-> 0]

\* The other thread before it has called process_request: trace ids are
\* uuids, the two threads draw theirs from disjoint ranges.
OtherIdle ==
    [req |-> [NoRequest EXCEPT !.trace_id = MaxRequests + 1],
     trace |-> [trace_id |-> MaxRequests + 1],
     log |-> << >>]

NoBudget ==
    [max_tool_runs |-> -1, max_cache_misses |-> -1, max_toolsmith_calls |-> -1,
     tool_runs |-> 0, cache_misses |-> 0, toolsmith_calls |-> 0]

ConductorIdle ==
    /\ db = EmptyDb
    /\ capability_budget = NoBudget
    /\ req = NoRequest
    /\ trace = NoTrace
    /\ log = << >>
    /\ other = OtherIdle
    /\ canon = NoCanon
    /\ verification = NoVerification
    /\ conn = ConnIdle

(***************************************************************************)
(* core/tools.py : ToolContract and ToolRegistry                           *)
(***************************************************************************)
Pat(t, k) == [type |-> t, kind |-> k]

ToolContract(name, version, consumes, satisfies, preconditions, supports, reliability, cost, latency_ms, verify_mode) ==
    [name |-> name, version |-> version, consumes |-> consumes,
     satisfies |-> satisfies, preconditions |-> preconditions,
     supports |-> supports, reliability |-> reliability, cost |-> cost,
     latency_ms |-> latency_ms, verify_mode |-> verify_mode]

\* The contracts of the registry the conductor runs with; the order of the
\* sequence is the insertion order of ToolRegistry.tools.
EvalMath ==
    ToolContract("EvalMath", "1.0.0", <<"query.math">>,
                 <<Pat("REPORT", "query.math")>>, {}, {},
                 "high", "tiny", 5, "blocking")

EvalMathSlow ==
    ToolContract("EvalMath.Slow", "1.0.0", <<"query.math">>,
                 <<Pat("REPORT", "query.math")>>, {}, {},
                 "high", "tiny", 500, "blocking")

EvalMathAlt ==
    ToolContract("EvalMath.Alt", "1.0.0", <<"query.math">>,
                 <<Pat("REPORT", "query.math")>>, {}, {},
                 "high", "tiny", 5, "blocking")

CountLetters ==
    ToolContract("TextOps.CountLetters", "1.0.0", <<"query.count">>,
                 <<Pat("REPORT", "query.count")>>, {}, {},
                 "high", "tiny", 5, "blocking")

ReasoningCore ==
    ToolContract("Reasoning.Core", "0.1.0", <<"query.logic", "plan.goal">>,
                 <<Pat("REPORT", "query.logic"), Pat("ACHIEVE", "plan.goal")>>,
                 {"facts.loaded"}, {},
                 "high", "low", 50, "blocking")

PrepStub ==
    ToolContract("Prep.Stub", "1.0.0", <<"prep">>,
                 <<Pat("MAINTAIN", "prep")>>, {}, {"facts.loaded"},
                 "medium", "tiny", 1, "off")

GuardrailChecker ==
    ToolContract("GuardrailChecker", "1.0.0", <<"guardrails">>,
                 <<Pat("VERIFY", "guardrails")>>, {}, {},
                 "high", "tiny", 1, "off")

NormalizeEmail ==
    ToolContract("Normalize.Email", "1.0.0", <<"normalize_email">>,
                 <<Pat("REPORT", "normalize_email")>>, {}, {"strict"},
                 "medium", "low", 20, "non_blocking")

Registry ==
    <<EvalMath, EvalMathSlow, CountLetters, ReasoningCore, PrepStub,
      GuardrailChecker, NormalizeEmail>>

NoTool == [name |-> None]

\* ToolRegistry.get_tool: the contract registered under a name, or None.
get_tool(reg, name) ==
    IF \E j \in 1..Len(reg) : reg[j].name = name
    THEN reg[CHOOSE j \in 1..Len(reg) : reg[j].name = name]
    ELSE NoTool

\* ToolRegistry._matches_obligation_pattern: the literal type, or a pattern
\* REPORT(kind) / ACHIEVE(kind) whose kind the tool consumes.
matches_obligation_pattern(obligation_type, pat, tool) ==
    \/ pat.kind = None /\ pat.type = obligation_type
    \/ /\ pat.kind # None
       /\ pat.type \in {"REPORT", "ACHIEVE"}
       /\ obligation_type = pat.type
       /\ pat.kind \in Range(tool.consumes)

\* ToolRegistry.find_tools_for_obligation: in registry order.
find_tools_for_obligation(reg, obligation_type) ==
    SelectSeq(reg, LAMBDA tool :
        \E j \in 1..Len(tool.satisfies) :
            matches_obligation_pattern(obligation_type, tool.satisfies[j], tool))

\* f"query.{input_kind}", for the kinds the registry declares.
QueryKind(input_kind) ==
    CASE input_kind = "normalize_email" -> "query.normalize_email"
      [] input_kind = "prep" -> "query.prep"
      [] input_kind = "guardrails" -> "query.guardrails"
      [] OTHER -> "query.?"

\* ToolRegistry._payload_provides_input
payload_provides_input(input_kind, payload) ==
    \/ Get(payload, "kind") # None /\ Get(payload, "kind") = input_kind
    \/ CASE input_kind = "query.math" ->
              Get(payload, "kind") = "math" /\ Has(payload, "expr")
         [] input_kind = "query.people" ->
              Get(payload, "kind") = "query.people" /\ Has(payload, "filters")
         [] input_kind = "query.count" ->
              /\ Get(payload, "kind") = "count"
              /\ Has(payload, "letter") /\ Has(payload, "word")
         [] input_kind = "query.status" ->
              Get(payload, "kind") = "status" /\ Has(payload, "field")
         [] input_kind = "query.logic" ->
              Get(payload, "kind") = "logic" /\ Has(payload, "query")
         [] input_kind = "plan.goal" ->
              \/ Get(payload, "kind") = "plan" /\ Has(payload, "goal")
              \/ Get(payload, "state") = "plan" /\ Has(payload, "goal")
         [] OTHER ->
              \/ Has(payload, input_kind)
              \/ Get(payload, "kind") = QueryKind(input_kind)

\* ToolRegistry.validate_tool_inputs: OR over the declared consumes kinds.
validate_tool_inputs(tool, payload) ==
    \E j \in 1..Len(tool.consumes) :
        payload_provides_input(tool.consumes[j], payload)

reliability_score(tool) ==
    CASE tool.reliability = "high" -> 3
      [] tool.reliability = "medium" -> 2
      [] tool.reliability = "low" -> 1

cost_score(tool) ==
    CASE tool.cost = "tiny" -> 4
      [] tool.cost = "low" -> 3
      [] tool.cost = "medium" -> 2
      [] tool.cost = "high" -> 1

\* int(1000 / max(latency_ms, 1))
latency_score(tool) ==
    1000 \div (IF tool.latency_ms > 1 THEN tool.latency_ms ELSE 1)

NameCode(name) ==
    CASE name = "EvalMath" -> 1
      [] name = "EvalMath.Slow" -> 2
      [] name = "EvalMath.Alt" -> 3
      [] name = "TextOps.CountLetters" -> 4
      [] name = "Reasoning.Core" -> 5
      [] name = "Prep.Stub" -> 6
      [] name = "GuardrailChecker" -> 7
      [] name = "Normalize.Email" -> 8
      [] OTHER -> 9

\* int(sha256(f"{seed}:{name}")): a number fixed by (seed, name) that differs
\* between two names under the same seed (multiplication by a unit modulo 11)
\* and orders the names differently under different seeds.
tiebreak_int(seed, name) == (((seed % 10) + 1) * NameCode(name)) % 11

tool_score_notiebreak(tool, seed) ==
    <<reliability_score(tool), cost_score(tool), latency_score(tool), 0>>

\* select_best_tool.tool_score
tool_score(tool, seed) ==
    <<reliability_score(tool), cost_score(tool), latency_score(tool),
      tiebreak_int(seed, tool.name)>>

\* The order of Python's tuples.
RECURSIVE TupleLess(_, _)
TupleLess(a, b) ==
    IF a = << >> \/ b = << >> THEN FALSE
    ELSE \/ Head(a) < Head(b)
         \/ Head(a) = Head(b) /\ TupleLess(Tail(a), Tail(b))

\* Python's max(seq, key=...): the first element whose key no other exceeds.
RECURSIVE MaxByScore(_, _, _)
MaxByScore(cands, seed, best) ==
    IF cands = << >> THEN best
    ELSE MaxByScore(Tail(cands), seed,
            IF TupleLess(tool_score(best, seed), tool_score(Head(cands), seed))
            THEN Head(cands) ELSE best)

\* ToolRegistry.select_best_tool
select_best_tool(reg, obligation_type, payload, seed) ==
    LET candidates == find_tools_for_obligation(reg, obligation_type)
        valid_candidates ==
            SelectSeq(candidates, LAMBDA tool : validate_tool_inputs(tool, payload))
    IN IF candidates = << >> \/ valid_candidates = << >> THEN NoTool
       ELSE MaxByScore(Tail(valid_candidates), seed, Head(valid_candidates))

\* ToolRegistry.find_support_tools
find_support_tools(reg, required_preconditions) ==
    IF required_preconditions = {} THEN << >>
    ELSE SelectSeq(reg, LAMBDA tool :
            (tool.supports \cap required_preconditions) # {})

(***************************************************************************)
(* core/cache.py : the Cache Key Engine                                    *)
(***************************************************************************)
\* The keys of tool inputs by the Python type of their values.
StrKeys ==
    {"kind", "expr", "letter", "word", "state", "value", "field", "mode",
     "message", "text", "slot", "predicate", "person", "email", "name",
     "workflow", "simulate_slow", "claim"}

DictKeys ==
    {"goal", "constraints", "budgets", "query", "args", "inputs",
     "query.math", "query.count", "normalize_email", "broken"}

\* " ".join(val.split()) on the strings of the model that carry incidental
\* whitespace; every other string of the model has none.
normalize_ws(val) ==
    CASE val = " 2+2 " -> "2+2"
      [] val = "2+2  " -> "2+2"
      [] val = "a  b" -> "a b"
      [] val = "r " -> "r"
      [] OTHER -> val

\* canonicalize_inputs: None values dropped, strings whitespace-normalised,
\* nested dicts canonicalised; a list of dicts is not sortable and keeps its
\* order; the key order of a dict is immaterial to a TLA+ function, as it is
\* to json.dumps(sort_keys=True).
RECURSIVE canonicalize_inputs(_)
canonicalize_inputs(inputs) ==
    LET keep == {k \in DOMAIN inputs :
                    ~(k \in StrKeys /\ inputs[k] = None)}
    IN [k \in keep |->
          CASE k \in StrKeys -> normalize_ws(inputs[k])
            [] k \in DictKeys -> canonicalize_inputs(inputs[k])
            [] OTHER -> inputs[k]]

Dep(type, id) == [type |-> type, id |-> id]

\* What a dependency's observed state hashes to.
NoneState == [t |-> "None", mtime |-> 0, size |-> 0, v |-> << >>]

StatState(f) == [t |-> "stat", mtime |-> f.mtime, size |-> f.size, v |-> << >>]

EmptyFilesState == [t |-> "files", mtime |-> 0, size |-> 0, v |-> << >>]

ValueState(chars) == [t |-> "value", mtime |-> 0, size |-> 0, v |-> chars]

ClockState(minute) == [t |-> "clock", mtime |-> minute, size |-> 0, v |-> << >>]

VerbatimState == [t |-> "verbatim", mtime |-> 0, size |-> 0, v |-> << >>]

\* {"mtime": stat.st_mtime, "size": stat.size}: os.stat_result has st_size
\* and no attribute size, so building the dict raises AttributeError, which
\* the enclosing "except Exception" turns into None.
stat_entry(f) == NoneState

\* The state compute_dependency_hash records for one "type:id" specifier.
dependency_state(dep, w) ==
    CASE dep.type = "filesystem" ->
            LET f == w.fs[dep.id]
            IN IF f.kind = "file" THEN stat_entry(f)
               ELSE IF f.kind = "dir"
                    THEN IF f.nfiles > 0 THEN stat_entry(f) ELSE EmptyFilesState
                    ELSE NoneState
      [] dep.type = "env" ->
            LET e == w.env[dep.id]
            IN IF e.set THEN ValueState(e.chars) ELSE NoneState
      [] dep.type = "db" ->
            LET f == w.fs[dep.id]
            IN IF f.kind # "absent" THEN stat_entry(f) ELSE NoneState
      [] dep.type = "clock" -> ClockState(w.clock)
      [] OTHER -> VerbatimState

Prefix(chars, n) == IF Len(chars) >= n THEN SubSeq(chars, 1, n) ELSE chars

\* f"sha256:{hashlib.sha256(value).hexdigest()}": the digest of a value is
\* the value behind the marker, a text that is never the value itself and
\* differs whenever the values differ.
Sha256(chars) == <<"sha256:">> \o chars

\* The snapshot entry of one specifier; an env value is reported as its
\* digest and a preview of at most three characters.
dependency_snapshot_entry(dep, w) ==
    IF dep.type = "env"
    THEN LET e == w.env[dep.id]
         IN IF e.set /\ e.chars # << >>
            THEN [t |-> "env", hash |-> Sha256(e.chars), preview |-> Prefix(e.chars, 3)]
            ELSE [t |-> "None", hash |-> << >>, preview |-> << >>]
    ELSE [t |-> dependency_state(dep, w).t, hash |-> << >>, preview |-> << >>]

\* compute_dependency_hash: specifiers without "type:id" form are skipped;
\* the digest is None (the empty function) when nothing was recorded.
compute_dependency_hash(depends_on, w) ==
    LET valid == {d \in Range(depends_on) : d.type # "nocolon"}
    IN [hash |-> [d \in valid |-> dependency_state(d, w)],
        snapshot |-> [d \in valid |-> dependency_snapshot_entry(d, w)]]

\* compute_input_hash
compute_input_hash(tool_name, inputs, tool_version, depends_on, w) ==
    LET canonical == canonicalize_inputs(inputs)
        dep == compute_dependency_hash(depends_on, w)
    IN [input_hash |-> [tool_name |-> tool_name, inputs |-> canonical,
                        tool_version |-> tool_version],
        depends_on_hash |-> dep.hash,
        cache_key |-> [tool_name |-> tool_name, inputs |-> canonical,
                       tool_version |-> tool_version,
                       depends_on_hash |-> dep.hash],
        dependency_snapshot |-> dep.snapshot]

(***************************************************************************)
(* The external world of the dependency specifiers.                        *)
(***************************************************************************)
File(mtime, size) == [kind |-> "file", mtime |-> mtime, size |-> size, nfiles |-> 0]

AbsentFile == [kind |-> "absent", mtime |-> 0, size |-> 0, nfiles |-> 0]

EnvUnset == [set |-> FALSE, chars |-> << >>]

EnvValue(chars) == [set |-> TRUE, chars |-> chars]

EnvValues == {EnvUnset, EnvValue(<<"a", "b">>), EnvValue(<<"s", "e", "c", "r", "e", "t">>)}

World0 ==
    [fs |-> [p \in {"data.txt"} |-> File(1, 1)],
     env |-> [x \in {"X"} |-> EnvUnset],
     clock |-> 0]

DependsChoices ==
    {<<Dep("filesystem", "data.txt")>>,
     <<Dep("env", "X")>>,
     <<Dep("db", "data.txt")>>,
     <<Dep("filesystem", "data.txt"), Dep("env", "X")>>}

\* A write to the file: its mtime advances and its size may change.
TouchFile(p) ==
    /\ world.fs[p].kind = "file"
    /\ world.fs[p].mtime < MaxStamp
    /\ \E size \in 1..MaxStamp :
          world' = [world EXCEPT !.fs[p] = File(world.fs[p].mtime + 1, size)]
    /\ UNCHANGED <<probes, depends, regA, regB, ask, picked, conductorVars>>

\* os.environ[x] = value, or its removal.
SetEnv(x) ==
    /\ \E e \in EnvValues :
          /\ e # world.env[x]
          /\ world' = [world EXCEPT !.env[x] = e]
    /\ UNCHANGED <<probes, depends, regA, regB, ask, picked, conductorVars>>

ProbeInputs == [kind |-> "math", expr |-> "2+2"]

\* One call compute_input_hash(tool_name, inputs, version, depends_on) with
\* the tool, its inputs and its version fixed.
Probe ==
    /\ Len(probes) < MaxProbes
    /\ probes' = Append(probes,
          [world |-> world,
           info |-> compute_input_hash("EvalMath", ProbeInputs, "1.0.0",
                                       depends, world)])
    /\ UNCHANGED <<world, depends, regA, regB, ask, picked, conductorVars>>

InitCache ==
    /\ world = World0
    /\ probes = << >>
    /\ depends \in DependsChoices
    /\ regA = << >>
    /\ regB = << >>
    /\ ask = [type |-> None, payload |-> << >>, seed |-> 0]
    /\ picked = << >>
    /\ ConductorIdle

NextCache ==
    \/ \E p \in DOMAIN world.fs : TouchFile(p)
    \/ \E x \in DOMAIN world.env : SetEnv(x)
    \/ Probe

SpecCache == InitCache /\ [][NextCache]_vars

(***************************************************************************)
(* select_best_tool over the load orders of one set of contracts.          *)
(***************************************************************************)
Contracts == {EvalMath, EvalMathAlt, EvalMathSlow, CountLetters}

Orders(S) ==
    {o \in [1..Cardinality(S) -> S] : \A i, j \in DOMAIN o : i # j => o[i] # o[j]}

AskPayloads ==
    {[kind |-> "math", expr |-> "2+2"],
     [kind |-> "count", letter |-> "r", word |-> "strawberry"],
     [kind |-> "haiku"]}

\* registry A answers select_best_tool(type, payload, seed)
SelectA ==
    /\ ~Has(picked, "A")
    /\ picked' = ("A" :> select_best_tool(regA, ask.type, ask.payload, ask.seed).name)
                    @@ picked
    /\ UNCHANGED <<world, probes, depends, regA, regB, ask, conductorVars>>

\* registry B answers the same call
SelectB ==
    /\ ~Has(picked, "B")
    /\ picked' = ("B" :> select_best_tool(regB, ask.type, ask.payload, ask.seed).name)
                    @@ picked
    /\ UNCHANGED <<world, probes, depends, regA, regB, ask, conductorVars>>

InitSelect ==
    /\ world = World0
    /\ probes = << >>
    /\ depends = << >>
    /\ regA \in Orders(Contracts)
    /\ regB \in Orders(Contracts)
    /\ \E p \in AskPayloads, seed \in 0..MaxSeed :
          ask = [type |-> "REPORT", payload |-> p, seed |-> seed]
    /\ picked = << >>
    /\ ConductorIdle

NextSelect == SelectA \/ SelectB

SpecSelect == InitSelect /\ [][NextSelect]_vars

(***************************************************************************)
(* core/tools.py : ToolExecutor and the tool implementations               *)
(***************************************************************************)
\* A python tool loaded from its contract's entry point that plans workflows.
WorkflowPlanner ==
    ToolContract("Workflow.Planner", "1.0.0", <<"plan.workflow">>,
                 <<Pat("ACHIEVE", "plan.workflow")>>, {}, {},
                 "high", "low", 50, "blocking")

\* A python tool loaded from its contract's entry point that returns no dict.
BrokenTool ==
    ToolContract("Broken.Tool", "1.0.0", <<"broken">>,
                 <<Pat("REPORT", "broken")>>, {}, {},
                 "low", "high", 900, "off")

\* ToolRegistry.tools of the conductor, in load order.
Tools ==
    <<EvalMath, EvalMathSlow, CountLetters, ReasoningCore, PrepStub,
      GuardrailChecker, NormalizeEmail, WorkflowPlanner, BrokenTool>>

\* ToolExecutor.tool_implementations: the built-in mocks and the python tools
\* whose entry point imports.
Implemented ==
    {"EvalMath", "TextOps.CountLetters", "Reasoning.Core", "Prep.Stub",
     "GuardrailChecker", "EvalMath.Slow", "Normalize.Email",
     "Workflow.Planner", "Broken.Tool"}

\* A text (final answers, JSON encodings) is a sequence of tokens.
NoText == <<"None">>

\* str(n) of the numbers the tools return
PyStr(n) ==
    CASE n = 0 -> <<"0">>
      [] n = 1 -> <<"1">>
      [] n = 3 -> <<"3">>
      [] n = 4 -> <<"4">>
      [] n = 9 -> <<"9">>
      [] OTHER -> <<"n">>

\* json.dumps of a list of texts (None is null)
RECURSIVE json_items(_)
json_items(texts) ==
    IF texts = << >> THEN << >>
    ELSE (IF Head(texts) = NoText THEN <<"null">> ELSE <<"'">> \o Head(texts) \o <<"'">>)
         \o (IF Tail(texts) = << >> THEN << >> ELSE <<",">>)
         \o json_items(Tail(texts))

json_dumps(texts) == <<"[">> \o json_items(texts) \o <<"]">>

\* What a tool function does besides returning a dict.
Raised(msg) == [raised |-> msg]

NotADict == [nondict |-> TRUE]

\* eval(expr) on the expressions of the model
mock_evalmath(inputs) ==
    LET expr == IF Has(inputs, "expr") THEN inputs["expr"] ELSE ""
    IN CASE expr \in {"2+2", " 2+2 ", "2+2  "} -> [result |-> 4]
         [] expr = "3*3" -> [result |-> 9]
         [] expr = "4" -> [result |-> 4]
         [] expr = "9" -> [result |-> 9]
         [] expr = "1/0" -> [error |-> "Division by zero"]
         [] expr = "" -> [error |-> "Invalid syntax"]
         [] OTHER -> [error |-> "Invalid characters in expression"]

mock_countletters(inputs) ==
    LET letter == IF Has(inputs, "letter") THEN inputs["letter"] ELSE ""
        word == IF Has(inputs, "word") THEN inputs["word"] ELSE ""
    IN IF letter \notin {"r", "s"} THEN [error |-> "Letter must be exactly one character"]
       ELSE IF word = "" THEN [error |-> "Word must be non-empty"]
       ELSE IF word = "strawberry"
            THEN [count |-> IF letter = "r" THEN 3 ELSE 1]
            ELSE [count |-> 0]

mock_prep_stub(inputs) ==
    [ok |-> TRUE, satisfied |-> Get(inputs, "preconditions")]

\* A constraint is {predicate, args}; args is a list whose head is the person.
Violates(c) ==
    \/ c.predicate = "calendar.free" /\ c.args # << >> /\ c.args[1] \in {"Alice", "Dana"}
    \/ c.predicate = "double_book"

mock_guardrail_checker(inputs) ==
    LET constraints == IF Has(inputs, "constraints") THEN inputs["constraints"] ELSE << >>
        violations == SelectSeq(constraints, Violates)
    IN IF violations # << >>
       THEN [status |-> "failed", justification |-> violations]
       ELSE [status |-> "passed"]

\* tools_generated/normalize_email_tool.py run
normalize_email_run(inputs) ==
    IF Get(inputs, "kind") # "normalize_email"
    THEN Raised("inputs['kind'] must be exactly 'normalize_email'")
    ELSE IF ~Has(inputs, "email") THEN Raised("inputs['email'] must be a string")
    ELSE LET normalized == IF inputs["email"] = " A@X.com " THEN <<"a@x.com">>
                           ELSE <<"e">>
         IN [final_answer |-> normalized, normalized_email |-> normalized]

\* The trajectory steps a planning tool can emit.
ObStep(type, payload, tool) ==
    [shape |-> "obligation", obligation |-> [type |-> type, payload |-> payload],
     derived_from |-> tool]

ClarifyStep(slot) == ObStep("CLARIFY", [slot |-> slot], None)

BranchStep(idx, key, op, then, else) ==
    [shape |-> "branch", when |-> [idx |-> idx, key |-> key, op |-> op],
     then |-> then, else |-> else]

\* a dict with neither an obligation nor a branch, e.g. a proof step
OtherStep == [shape |-> "other"]

\* a step that is no dict, e.g. a step name
StringStep == [shape |-> "string"]

\* a branch arm entry {type, kind}
TypeKindItem(type, kind) == [shape |-> "typekind", type |-> type, kind |-> kind]

\* a branch arm entry {type, payload}
PayloadItem(type, payload) == [shape |-> "payload", type |-> type, payload |-> payload]

\* The JSON schema of a consumes entry: its required fields; kinds whose
\* contract gives no schema have none.
HasConsumesSchema(kind) == kind \in {"query.math", "query.count", "normalize_email"}

SchemaRequired(kind) ==
    CASE kind = "query.math" -> <<"expr">>
      [] kind = "query.count" -> <<"letter", "word">>
      [] kind = "normalize_email" -> <<"email">>
      [] OTHER -> << >>

\* The alphabetical rank of a tool name.
NameRank(name) ==
    CASE name = "Broken.Tool" -> 1
      [] name = "EvalMath" -> 2
      [] name = "EvalMath.Alt" -> 3
      [] name = "EvalMath.Slow" -> 4
      [] name = "GuardrailChecker" -> 5
      [] name = "Normalize.Email" -> 6
      [] name = "Prep.Stub" -> 7
      [] name = "Reasoning.Core" -> 8
      [] name = "TextOps.CountLetters" -> 9
      [] OTHER -> 10

\* _mock_reasoning_core._score: (-rel, -cost, lat, name), smaller is better
plan_score(c) ==
    <<0 - reliability_score(c), 0 - cost_score(c), c.latency_ms, NameRank(c.name)>>

\* candidates.sort(key=_score)[0]
RECURSIVE MinByPlanScore(_, _)
MinByPlanScore(cands, best) ==
    IF cands = << >> THEN best
    ELSE MinByPlanScore(Tail(cands),
            IF TupleLess(plan_score(Head(cands)), plan_score(best))
            THEN Head(cands) ELSE best)

SequenceTypes == {"REPORT", "ACHIEVE", "MAINTAIN", "AVOID", "JUSTIFY", "SCHEDULE"}

\* _mock_reasoning_core, planning of a capability.sequence goal: one step
\* per sequence item, derived from the contracts.
RECURSIVE derive_steps(_, _, _, _)
derive_steps(seq, inputs_map, contracts, steps) ==
    IF seq = << >>
    THEN [kind |-> "plan", trajectory |-> [steps |-> steps], feasible |-> TRUE,
          capabilities_satisfied |-> <<"ACHIEVE.plan">>]
    ELSE LET item == Head(seq)
             candidates ==
                SelectSeq(contracts, LAMBDA t :
                    /\ item.kind \in Range(t.consumes)
                    /\ \/ Pat(item.type, item.kind) \in Range(t.satisfies)
                       \/ Pat(item.type, None) \in Range(t.satisfies))
             payload_inputs ==
                IF Has(inputs_map, item.kind) THEN inputs_map[item.kind] ELSE << >>
             required == SchemaRequired(item.kind)
             missing == SelectSeq(required, LAMBDA f : ~Has(payload_inputs, f))
             validates == HasConsumesSchema(item.kind) /\ missing = << >>
         IN IF item.type \notin SequenceTypes THEN [error |-> "unsupported_sequence_type"]
            ELSE IF candidates = << >>
            THEN [error |-> "missing_capability",
                  missing |-> [type |-> item.type, kind |-> item.kind]]
            ELSE IF ~validates
            THEN IF missing # << >>
                 THEN [kind |-> "plan", clarify |-> Head(missing),
                       why_not |-> <<"input_missing">>]
                 ELSE [error |-> "input_schema_mismatch",
                       missing_capability |->
                          [type |-> "missing_capability",
                           reason |-> "tools_exist_but_inputs_do_not_match_schema",
                           requested |-> [type |-> item.type, kind |-> item.kind,
                                          inputs |-> payload_inputs],
                           candidates |->
                              [j \in 1..Len(candidates) |-> candidates[j].name]]]
            ELSE LET chosen == MinByPlanScore(Tail(candidates), Head(candidates))
                 IN derive_steps(Tail(seq), inputs_map, contracts,
                       Append(steps,
                          ObStep(item.type,
                                 payload_inputs @@ ("kind" :> item.kind),
                                 chosen.name)))

\* _mock_reasoning_core, deduction: grandparentOf over the parentOf facts.
deduce(inputs) ==
    LET budgets == inputs["budgets"]
        query == inputs["query"]
        facts == IF Has(inputs, "facts") THEN inputs["facts"] ELSE << >>
        rules == IF Has(inputs, "rules") THEN inputs["rules"] ELSE << >>
        domains == IF Has(inputs, "domains") THEN inputs["domains"] ELSE << >>
        edges == {facts[j].args : j \in {k \in 1..Len(facts) :
                                          facts[k].predicate = "parentOf"}}
        x == query.args[1]
        z == query.args[2]
        y_candidates == {e[2] : e \in {d \in edges : d[1] = x}}
        chain == \E y \in y_candidates : <<y, z>> \in edges
        truncated ==
            [status |-> "truncated", kind |-> "logic.answer", value |-> None,
             trajectory |-> [steps |-> << >>],
             capabilities_satisfied |-> <<"REPORT.logic">>]
    IN IF rules = << >> /\ domains = << >> THEN [error |-> "no_rules_or_domains"]
       ELSE IF ~(query.predicate = "grandparentOf" /\ Len(query.args) = 2)
       THEN [error |-> "unsupported_query"]
       ELSE IF budgets.max_depth < 2 /\ chain THEN truncated
       ELSE IF Cardinality(y_candidates) > budgets.beam THEN truncated
       ELSE IF y_candidates # {} /\ budgets.max_depth < 2 THEN truncated
       ELSE IF chain
       THEN [kind |-> "logic.answer", value |-> "True",
             trajectory |-> [steps |-> <<OtherStep>>],
             assertions |-> <<[subject |-> x, predicate |-> "grandparentOf",
                               object |-> z]>>,
             capabilities_satisfied |-> <<"REPORT.logic">>]
       ELSE [kind |-> "logic.answer", value |-> "False",
             trajectory |-> [steps |-> << >>],
             capabilities_satisfied |-> <<"REPORT.logic">>]

\* _mock_reasoning_core, planning
plan(inputs) ==
    LET goal == inputs["goal"]
        event ==
            [kind |-> "plan",
             trajectory |-> [steps |-> <<StringStep, StringStep, StringStep, StringStep>>],
             feasible |-> TRUE, capabilities_satisfied |-> <<"ACHIEVE.plan">>]
    IN CASE goal.predicate = "capability.sequence" ->
              derive_steps(goal.args.sequence, goal.args.inputs,
                           inputs["tool_contracts"], << >>)
         [] goal.predicate = "event.scheduled" ->
              IF goal.args.person \in {"Dana", "Alex"}
              THEN ("clarify" :> "person") @@ event
              ELSE event
         [] OTHER -> [error |-> "unsupported_goal"]

mock_reasoning_core(inputs) ==
    IF ~Has(inputs, "budgets") THEN [error |-> "budgets_required"]
    ELSE CASE Get(inputs, "mode") = "deduction" -> deduce(inputs)
           [] Get(inputs, "mode") = "planning" -> plan(inputs)
           [] OTHER -> [error |-> "mode_required"]

\* The steps of the workflows the planning tool knows.
MathStep == ObStep("REPORT", [kind |-> "math", expr |-> "2+2"], None)

NineStep == ObStep("REPORT", [kind |-> "math", expr |-> "3*3"], "EvalMath.Slow")

CountStep ==
    ObStep("REPORT", [kind |-> "count", letter |-> "r", word |-> "strawberry"], None)

CountSStep ==
    ObStep("REPORT", [kind |-> "count", letter |-> "s", word |-> "strawberry"],
           "EvalMath")

ErrStep == ObStep("REPORT", [kind |-> "math", expr |-> "1/0"], None)

HaikuStep == ObStep("REPORT", [kind |-> "haiku"], None)

\* The fields that hold a structured value: either the object {"$ref": str} or
\* a JSON value (a list, a number, null).
RefKeys == {"emails"}

Ref(str) == [shape |-> "ref", ref |-> str]

Value(v) == [shape |-> "value", value |-> v]

\* the JSON null as a structured value
Null == [shape |-> "null"]

\* ref_re.match(str.strip()): the step index and key, index 0 when the
\* string is not of the form STEP_i.key.
RefTarget(str) ==
    CASE str = "STEP_1.result" -> [idx |-> 1, key |-> "result"]
      [] str = "STEP_1.emails" -> [idx |-> 1, key |-> "emails"]
      [] str = "STEP_9.result" -> [idx |-> 9, key |-> "result"]
      [] OTHER -> [idx |-> 0, key |-> ""]

\* a step whose payload takes a structured value from an earlier step
RefStep(str) ==
    ObStep("REPORT", [kind |-> "normalize_email", email |-> " A@X.com ",
                      emails |-> Ref(str)], None)

\* a math step that prefers a tool and requires capabilities of it
ForcedStep(tool, requires) ==
    ObStep("REPORT", [kind |-> "math", expr |-> "3*3",
                      constraints |-> [requires |-> requires]], tool)

StrictStep ==
    ObStep("REPORT", [kind |-> "normalize_email", email |-> " A@X.com ",
                      constraints |-> [requires |-> <<"strict">>]],
           "Normalize.Email")

\* an obligation step without a type
BadStep == [shape |-> "obligation", obligation |-> [type |-> None, payload |-> << >>],
            derived_from |-> None]

Trajectory(steps, inputs_map) ==
    [kind |-> "plan",
     trajectory |-> [steps |-> steps, inputs_map |-> inputs_map]]

\* The python planning tool: the trajectory of each workflow it is asked for.
workflow_planner(inputs) ==
    LET w == Get(inputs, "workflow")
    IN CASE w = "seq" -> Trajectory(<<MathStep, CountStep>>, << >>)
         [] w = "fail" -> Trajectory(<<ErrStep, CountStep>>, << >>)
         [] w = "haiku" -> Trajectory(<<MathStep, HaikuStep, CountStep>>, << >>)
         [] w = "clarify" ->
              Trajectory(<<MathStep, ClarifyStep("text"), CountStep>>, << >>)
         [] w = "then" ->
              Trajectory(<<StringStep, MathStep,
                           BranchStep(1, "emails", "empty",
                                      <<CountStep, NineStep>>, <<ErrStep>>),
                           OtherStep, CountSStep>>, << >>)
         [] w = "else" ->
              Trajectory(<<MathStep,
                           BranchStep(1, "result", "empty",
                                      <<ClarifyStep("text")>>,
                                      <<TypeKindItem("REPORT", "count"),
                                        StringStep,
                                        PayloadItem(None, [kind |-> "math",
                                                           expr |-> "3*3"])>>),
                           CountSStep>>,
                         [count |-> [letter |-> "r", word |-> "strawberry"]])
         [] w = "then_clarify" ->
              Trajectory(<<MathStep,
                           BranchStep(1, "emails", "empty",
                                      <<ClarifyStep("text")>>, <<CountStep>>),
                           NineStep>>, << >>)
         [] w = "bad" -> Trajectory(<<MathStep, BadStep>>, << >>)
         [] w = "template" ->
              Trajectory(<<MathStep,
                           ObStep("REPORT", [kind |-> "math",
                                             expr |-> "{{STEP_1.result}}"], None)>>,
                         << >>)
         [] w = "strings" -> Trajectory(<<StringStep, OtherStep>>, << >>)
         [] w = "ref" -> Trajectory(<<MathStep, RefStep("STEP_1.result")>>, << >>)
         [] w = "ref_nokey" ->
              Trajectory(<<MathStep, RefStep("STEP_1.emails")>>, << >>)
         [] w = "ref_dangling" ->
              Trajectory(<<MathStep, RefStep("STEP_9.result")>>, << >>)
         [] w = "ref_text" ->
              Trajectory(<<MathStep, RefStep("first step")>>, << >>)
         [] w = "forced" ->
              Trajectory(<<ForcedStep("EvalMath.Slow", <<"gpu">>),
                           ForcedStep("EvalMath", <<"gpu">>),
                           ForcedStep("No.Such", << >>),
                           StrictStep>>, << >>)
         [] w = "dangling" ->
              Trajectory(<<MathStep,
                           ObStep("REPORT", [kind |-> "math",
                                             expr |-> "{{STEP_9.result}}"], None)>>,
                         << >>)
         [] w = "nokey" ->
              Trajectory(<<MathStep,
                           ObStep("REPORT", [kind |-> "math",
                                             expr |-> "{{STEP_1.count}}"], None)>>,
                         << >>)
         [] OTHER -> [error |-> "unknown_workflow"]

\* tool_func = self.tool_implementations[tool_name]
tool_func(tool_name, inputs) ==
    CASE tool_name \in {"EvalMath", "EvalMath.Slow"} -> mock_evalmath(inputs)
      [] tool_name = "TextOps.CountLetters" -> mock_countletters(inputs)
      [] tool_name = "Reasoning.Core" -> mock_reasoning_core(inputs)
      [] tool_name = "Prep.Stub" -> mock_prep_stub(inputs)
      [] tool_name = "GuardrailChecker" -> mock_guardrail_checker(inputs)
      [] tool_name = "Normalize.Email" -> normalize_email_run(inputs)
      [] tool_name = "Workflow.Planner" -> workflow_planner(inputs)
      [] OTHER -> NotADict

\* ToolExecutor.execute_tool: an unknown tool and a raising tool give an
\* error dict; whatever else the tool function returns is returned.
execute_tool(tool_name, inputs) ==
    IF tool_name \notin Implemented THEN [error |-> "not implemented"]
    ELSE LET result == tool_func(tool_name, inputs)
         IN IF Has(result, "raised") THEN [error |-> result["raised"]]
            ELSE result

(***************************************************************************)
(* conductor/conductor.py : CapabilityBudget, ExecutionResult, the store   *)
(***************************************************************************)
\* CapabilityBudget(max_...=capability_budgets.get(...)); a limit that is
\* None is negative here.
CapabilityBudget(capability_budgets) ==
    [max_tool_runs |-> IF Has(capability_budgets, "max_tool_runs")
                       THEN capability_budgets["max_tool_runs"] ELSE -1,
     max_cache_misses |-> IF Has(capability_budgets, "max_cache_misses")
                          THEN capability_budgets["max_cache_misses"] ELSE -1,
     max_toolsmith_calls |-> IF Has(capability_budgets, "max_toolsmith_calls")
                             THEN capability_budgets["max_toolsmith_calls"] ELSE -1,
     tool_runs |-> 0, cache_misses |-> 0, toolsmith_calls |-> 0]

check_tool_run(b) == ~(b.max_tool_runs >= 0 /\ b.tool_runs >= b.max_tool_runs)

\* A cache-miss check that never refuses.
check_cache_miss_unlimited(b) == TRUE

check_cache_miss(b) == ~(b.max_cache_misses >= 0 /\ b.cache_misses >= b.max_cache_misses)

check_toolsmith_call(b) ==
    ~(b.max_toolsmith_calls >= 0 /\ b.toolsmith_calls >= b.max_toolsmith_calls)

\* ExecutionResult(obligation_id, success=False) with the dataclass defaults
ExecutionResult(obligation_id) ==
    [obligation_id |-> obligation_id, success |-> FALSE, tool_name |-> None,
     assertions |-> << >>, error |-> None, clarify_slot |-> None,
     inputs |-> << >>, outputs |-> << >>, sub_results |-> << >>,
     cache_hit |-> FALSE, cache_lookup_reason |-> None]

\* "if er.clarify_slot": a non-empty string
Truthy(str) == str # None /\ str # ""

\* What a stage of the plan loop hands back: the conductor's state, the
\* result, and whether an exception is propagating instead.
Ret(st, res) == [st |-> st, res |-> res, raised |-> FALSE]

\* Identifiers: OB_{n}_{trace_id} is <<trace_id, n>>, {id}_STEP_{k} and
\* {id}_SKILL_{i} extend the parent's identifier.
ObligationId(trace_id, n) == <<trace_id, n>>

StepId(obligation_id, k) == obligation_id \o <<1, k>>

SkillId(obligation_id, i) == obligation_id \o <<2, i>>

\* The selection seed an identifier gives.
RECURSIVE SeedOf(_)
SeedOf(id) == IF id = << >> THEN 0 ELSE (Head(id) + 3 * SeedOf(Tail(id))) % 10

\* The history of what the conductor did, in order.
\* n is the tool_runs counter and budget the whole budget at that point.
Event(ev, id, tool, budget, info) ==
    [ev |-> ev, id |-> id, tool |-> tool, n |-> budget.tool_runs,
     budget |-> budget, info |-> info]

Logged(st, ev, id, tool, info) ==
    [st EXCEPT !.log = Append(@, Event(ev, id, tool, st.budget, info))]

\* IRDatabase.create_obligation
create_obligation(st, id, kind, status) ==
    [st EXCEPT !.obls = (id :> [kind |-> kind, status |-> status]) @@ @]

\* IRDatabase.update_obligation_status: UPDATE ... WHERE id = ?
update_obligation_status(st, id, status) ==
    LET st1 == Logged(st, "status", id, status, << >>)
    IN IF id \in DOMAIN st1.obls
       THEN [st1 EXCEPT !.obls[id].status = status]
       ELSE st1

Assertion(obligation_id, tag, subject_id, predicate, object) ==
    [id |-> [ob |-> obligation_id, tag |-> tag], subject_id |-> subject_id,
     predicate |-> predicate, object |-> object]

\* IRDatabase.create_assertion, for each of a list
RECURSIVE create_assertions(_, _)
create_assertions(st, assertions) ==
    IF assertions = << >> THEN st
    ELSE create_assertions(
            Logged([st EXCEPT !.asserts = Append(@, Head(assertions))],
                   "assert", Head(assertions).id.ob, Head(assertions).predicate, << >>),
            Tail(assertions))

\* IRDatabase.get_assertions_by_subject("E1") filtered on predicate "name"
name_assertions(st) ==
    SelectSeq(st.asserts, LAMBDA a : a.subject_id = <<"E1">> /\ a.predicate = "name")

\* IRDatabase.create_tool_run: the run is kept under (tool, cache_key, version)
create_tool_run(st, tool_name, cache_key, tool_version, outputs, id) ==
    Logged([st EXCEPT !.runs = Append(@, [tool_name |-> tool_name,
                                          input_hash |-> cache_key,
                                          tool_version |-> tool_version,
                                          outputs |-> outputs])],
           "persist", id, tool_name, << >>)

\* IRDatabase.lookup_tool_cache(tool_name, cache_key, version): the outputs
\* of the latest run kept under that key, or None.
cache_matches(st, tool_name, cache_key, tool_version) ==
    {j \in 1..Len(st.runs) :
        /\ st.runs[j].tool_name = tool_name
        /\ st.runs[j].tool_version = tool_version
        /\ st.runs[j].input_hash = cache_key}

lookup_tool_cache(st, tool_name, cache_key, tool_version) ==
    LET m == cache_matches(st, tool_name, cache_key, tool_version)
    IN st.runs[CHOOSE j \in m : \A k \in m : k <= j].outputs

(***************************************************************************)
(* conductor/conductor.py : the helpers of the plan loop                   *)
(***************************************************************************)
\* Conductor._infer_required_input_kind
infer_required_input_kind(obligation_type, payload) ==
    CASE obligation_type = "REPORT" ->
            LET k == Get(payload, "kind")
            IN CASE k = "math" -> "query.math"
                 [] k = "count" -> "query.count"
                 [] k = "logic" -> "query.logic"
                 [] k \in {"status", "status.name"} -> "query.status"
                 [] OTHER -> k
      [] obligation_type = "ACHIEVE" ->
            IF Get(payload, "state") = "plan" THEN "plan.goal" ELSE None
      [] OTHER -> None

\* Conductor._build_missing_capability_payload; capability_name is
\* f"{type}:{required_kind}", or the type alone.
build_missing_capability_payload(obligation_id, ob, reason, candidate_tools) ==
    LET required_kind == infer_required_input_kind(ob.type, ob.payload)
    IN [type |-> "missing_capability",
        capability_name |-> IF required_kind # None THEN <<ob.type, required_kind>>
                            ELSE <<ob.type>>,
        required_input_kind |-> required_kind,
        obligation_id |-> obligation_id,
        obligation_type |-> ob.type,
        sample_payload |-> ob.payload,
        reason |-> reason,
        candidate_tools |-> candidate_tools]

DefaultBudgets(beam, time_ms) ==
    [max_depth |-> 3, beam |-> beam, time_ms |-> time_ms]

\* Conductor._prepare_tool_inputs
prepare_tool_inputs(tool, ob) ==
    LET payload == ob.payload
    IN CASE tool.name = "EvalMath" ->
              [expr |-> IF Has(payload, "expr") THEN payload["expr"] ELSE ""]
         [] tool.name = "TextOps.CountLetters" ->
              [letter |-> IF Has(payload, "letter") THEN payload["letter"] ELSE "",
               word |-> IF Has(payload, "word") THEN payload["word"] ELSE ""]
         [] tool.name = "Reasoning.Core" ->
              IF ob.type = "REPORT" /\ Get(payload, "kind") = "logic"
              THEN [mode |-> IF Truthy(Get(payload, "mode")) THEN payload["mode"]
                             ELSE "deduction",
                    query |-> payload["query"],
                    facts |-> IF Has(payload, "facts") THEN payload["facts"] ELSE << >>,
                    rules |-> IF Has(payload, "rules") THEN payload["rules"] ELSE << >>,
                    domains |-> IF Has(payload, "domains") THEN payload["domains"]
                                ELSE << >>,
                    simulate_slow |-> Get(payload, "simulate_slow"),
                    budgets |-> IF Has(payload, "budgets") THEN payload["budgets"]
                                ELSE DefaultBudgets(4, 100)]
              ELSE IF ob.type = "ACHIEVE" /\ Get(payload, "state") = "plan"
              THEN [mode |-> IF Truthy(Get(payload, "mode")) THEN payload["mode"]
                             ELSE "planning",
                    goal |-> payload["goal"],
                    budgets |-> IF Has(payload, "budgets") THEN payload["budgets"]
                                ELSE DefaultBudgets(3, 150),
                    tool_contracts |-> Tools]
              ELSE payload
         [] OTHER -> payload

\* Conductor._create_assertions_from_outputs
create_assertions_from_outputs(tool, outputs, obligation_id) ==
    CASE tool.name = "EvalMath" ->
            IF Has(outputs, "result")
            THEN <<Assertion(obligation_id, <<"math">>, <<"Expr">> \o obligation_id,
                             "evaluatesTo", PyStr(outputs["result"]))>>
            ELSE << >>
      [] tool.name = "TextOps.CountLetters" ->
            IF Has(outputs, "count")
            THEN <<Assertion(obligation_id, <<"count">>, <<"Text">> \o obligation_id,
                             "containsLetterCount", PyStr(outputs["count"]))>>
            ELSE << >>
      [] tool.name = "Reasoning.Core" ->
            IF Get(outputs, "kind") = "logic.answer" /\ Get(outputs, "value") = "True"
               /\ Has(outputs, "assertions")
            THEN [j \in 1..Len(outputs["assertions"]) |->
                    Assertion(obligation_id, <<"logic", j>>,
                              <<outputs["assertions"][j].subject>>,
                              outputs["assertions"][j].predicate,
                              <<outputs["assertions"][j].object>>)]
            ELSE << >>
      [] OTHER ->
            IF Has(outputs, "value") /\ Get(outputs, "state") = "status.name"
            THEN <<Assertion(obligation_id, <<"name">>, <<"E1">>, "name",
                             <<outputs["value"]>>)>>
            ELSE << >>

\* json.dumps(steps) of a trajectory's steps
json_steps(steps) ==
    <<"[">> \o [j \in 1..Len(steps) |-> steps[j].shape] \o <<"]">>

HasText(outputs, key) ==
    Has(outputs, key) /\ outputs[key] # NoText /\ outputs[key] # << >>

\* Conductor._ensure_final_answer
ensure_final_answer(tool_name, outputs, assertions) ==
    IF HasText(outputs, "final_answer") THEN outputs
    ELSE CASE tool_name = "EvalMath" /\ Has(outputs, "result") ->
                ("final_answer" :> PyStr(outputs["result"])) @@ outputs
           [] tool_name = "TextOps.CountLetters" /\ Has(outputs, "count") ->
                ("final_answer" :> PyStr(outputs["count"])) @@ outputs
           [] tool_name = "Reasoning.Core" /\ Get(outputs, "kind") = "logic.answer" ->
                ("final_answer" :> IF Get(outputs, "value") = "True"
                                   THEN <<"true">> ELSE <<"false">>) @@ outputs
           [] tool_name = "Reasoning.Core" /\ Get(outputs, "kind") = "plan" ->
                ("final_answer" :>
                    json_steps(IF Has(outputs, "trajectory")
                               THEN outputs["trajectory"].steps ELSE << >>)) @@ outputs
           [] OTHER -> outputs

\* schemas/obligation.schema.json: the obligation types a batch may carry.
schema_valid(ob) ==
    ob.type \in {"REPORT", "ACHIEVE", "MAINTAIN", "AVOID", "JUSTIFY", "VERIFY",
                 "CLARIFY", "DISCOVER_OP", "RUN_SKILL"}

\* ObligationParser.parse_obligations on one obligation: it raises on what
\* the schema rejects, on a logic/plan kind without mode and on a payload
\* without the field its type requires.
parse_ok(ob) ==
    /\ schema_valid(ob)
    /\ ~(Get(ob.payload, "kind") \in {"logic", "plan"} /\ ~Truthy(Get(ob.payload, "mode")))
    /\ ob.type = "REPORT" => Has(ob.payload, "kind")
    /\ ob.type = "ACHIEVE" => Has(ob.payload, "state")
    /\ ob.type = "JUSTIFY" => Has(ob.payload, "claim")
    /\ ob.type = "CLARIFY" => Has(ob.payload, "slot")

(***************************************************************************)
(* conductor/conductor.py : Conductor._execute_plan_loop                   *)
(***************************************************************************)
RECURSIVE execute_plan_loop(_, _, _, _)

\* except Exception at the end of the plan loop
plan_loop_failed_reraise(st, id) ==
    [st |-> st, res |-> ExecutionResult(id), raised |-> TRUE]

plan_loop_failed(st, id) ==
    Ret(update_obligation_status(st, id, "failed"),
        [ExecutionResult(id) EXCEPT !.error = "Plan loop failed"])

\* A failing result that reports success.
Failure_successful(cx, assertions, outputs) ==
    [ExecutionResult(cx.id) EXCEPT !.success = TRUE,
                                   !.tool_name = cx.tool.name,
                                   !.assertions = assertions,
                                   !.inputs = cx.tool_inputs,
                                   !.outputs = outputs]

\* The failing results of the plan loop after a tool was selected.
Failure(cx, assertions, outputs) ==
    [ExecutionResult(cx.id) EXCEPT !.tool_name = cx.tool.name,
                                   !.assertions = assertions,
                                   !.inputs = cx.tool_inputs,
                                   !.outputs = outputs]

\* Store the run for the cache and return the successful result.
finish_unstored(st, cx, tool_outputs, assertions, sub_results) ==
    Ret(Logged(st, "ok", cx.id, cx.tool.name, << >>),
        [ExecutionResult(cx.id) EXCEPT !.success = TRUE,
                                       !.tool_name = cx.tool.name,
                                       !.assertions = assertions,
                                       !.inputs = cx.tool_inputs,
                                       !.outputs = tool_outputs,
                                       !.sub_results = sub_results,
                                       !.cache_hit = cx.cache_hit,
                                       !.cache_lookup_reason = cx.reason])

\* A conductor that marks the obligation failed after the run is stored.
finish_demoting(st, cx, tool_outputs, assertions, sub_results) ==
    Ret(update_obligation_status(
            Logged(create_tool_run(st, cx.tool.name, cx.cache_key, cx.tool.version,
                                   tool_outputs, cx.id),
                   "ok", cx.id, cx.tool.name, << >>),
            cx.id, "failed"),
        [ExecutionResult(cx.id) EXCEPT !.success = TRUE,
                                       !.tool_name = cx.tool.name,
                                       !.assertions = assertions,
                                       !.inputs = cx.tool_inputs,
                                       !.outputs = tool_outputs,
                                       !.sub_results = sub_results,
                                       !.cache_hit = cx.cache_hit,
                                       !.cache_lookup_reason = cx.reason])

finish(st, cx, tool_outputs, assertions, sub_results) ==
    LET st1 == IF ~cx.cache_hit /\ ~Has(tool_outputs, "error")
               THEN create_tool_run(st, cx.tool.name, cx.cache_key,
                                    cx.tool.version, tool_outputs, cx.id)
               ELSE st
    IN Ret(Logged(st1, "ok", cx.id, cx.tool.name, << >>),
           [ExecutionResult(cx.id) EXCEPT !.success = TRUE,
                                          !.tool_name = cx.tool.name,
                                          !.assertions = assertions,
                                          !.inputs = cx.tool_inputs,
                                          !.outputs = tool_outputs,
                                          !.sub_results = sub_results,
                                          !.cache_hit = cx.cache_hit,
                                          !.cache_lookup_reason = cx.reason])

\* The guardrails an ACHIEVE plan obligation is checked against.
guardrails_of(ob) ==
    IF ob.type = "ACHIEVE" /\ Get(ob.payload, "state") = "plan"
       /\ Has(ob.payload, "guardrails")
       /\ get_tool(Tools, "GuardrailChecker") # NoTool
    THEN ob.payload["guardrails"] ELSE << >>

check_guardrails(ob) ==
    execute_tool("GuardrailChecker",
                 [constraints |-> guardrails_of(ob), goal |-> Get(ob.payload, "goal")])

\* tool_outputs.setdefault("why_not", []).append("guardrail_failed") and the
\* checker's justification
guardrail_outputs_silent(tool_outputs, chk_out) == tool_outputs

guardrail_outputs(tool_outputs, chk_out) ==
    ("why_not" :> Append(IF Has(tool_outputs, "why_not")
                         THEN tool_outputs["why_not"] ELSE << >>,
                         "guardrail_failed"))
    @@ ("justification" :> IF Has(chk_out, "justification")
                           THEN chk_out["justification"] ELSE << >>)
    @@ tool_outputs

guardrail_failed(st, cx, tool_outputs, assertions, chk_out) ==
    Ret(update_obligation_status(st, cx.id, "failed"),
        Failure(cx, assertions, guardrail_outputs(tool_outputs, chk_out)))

\* Guardrail enforcement after the trajectory; an obligation that is no
\* ACHIEVE plan is marked resolved.
enforce_and_finish(st, cx, tool_outputs, assertions, sub_results) ==
    IF cx.ob.type = "ACHIEVE" /\ Get(cx.ob.payload, "state") = "plan"
    THEN IF guardrails_of(cx.ob) # << >>
         THEN LET chk_out == check_guardrails(cx.ob)
                  st1 == Logged(st, "guard", cx.id, "GuardrailChecker",
                                <<2, Len(sub_results),
                                  IF Get(chk_out, "status") = "failed" THEN 1 ELSE 0>>)
              IN IF Get(chk_out, "status") = "failed"
                 THEN guardrail_failed(st1, cx, tool_outputs, assertions, chk_out)
                 ELSE finish(st1, cx, tool_outputs, assertions, sub_results)
         ELSE finish(st, cx, tool_outputs, assertions, sub_results)
    ELSE finish(update_obligation_status(st, cx.id, "resolved"),
                cx, tool_outputs, assertions, sub_results)

\* The template strings of the model: {{STEP_idx.key}}
IsTemplate(str) ==
    str \in {"{{STEP_1.result}}", "{{STEP_1.count}}", "{{STEP_2.count}}",
             "{{STEP_9.result}}"}

TemplateRef(str) ==
    CASE str = "{{STEP_1.result}}" -> [idx |-> 1, key |-> "result"]
      [] str = "{{STEP_1.count}}" -> [idx |-> 1, key |-> "count"]
      [] str = "{{STEP_2.count}}" -> [idx |-> 2, key |-> "count"]
      [] OTHER -> [idx |-> 9, key |-> "result"]

\* str(val) as a payload string
StrOf(n) ==
    CASE n = 0 -> "0" [] n = 1 -> "1" [] n = 3 -> "3" [] n = 4 -> "4"
      [] n = 9 -> "9" [] OTHER -> "n"

\* A conductor that executes the step payload as the planner emitted it.
resolve_templates_none(payload, prior_outputs) == payload

\* A conductor that leaves every structured reference in place.
resolve_ref_none(obj, prior_outputs) == obj

\* _resolve_templates on a {"$ref": ...} object: the object itself when the
\* reference does not parse or its index is out of range, else a copy of the
\* raw value, None when the key is absent.
resolve_ref(obj, prior_outputs) ==
    LET r == RefTarget(obj.ref)
    IN IF r.idx < 1 \/ r.idx > Len(prior_outputs) THEN obj
       ELSE IF Has(prior_outputs[r.idx], r.key)
       THEN Value(prior_outputs[r.idx][r.key])
       ELSE Null

\* _resolve_templates on a step payload: a token whose step index is out of
\* range or whose key is absent stays as it is.
resolve_templates(payload, prior_outputs) ==
    [k \in DOMAIN payload |->
        IF k \in StrKeys /\ IsTemplate(payload[k])
        THEN LET r == TemplateRef(payload[k])
             IN IF r.idx >= 1 /\ r.idx <= Len(prior_outputs)
                   /\ Has(prior_outputs[r.idx], r.key)
                THEN StrOf(prior_outputs[r.idx][r.key])
                ELSE payload[k]
        ELSE IF k \in RefKeys /\ payload[k].shape = "ref"
        THEN resolve_ref(payload[k], prior_outputs)
        ELSE payload[k]]

\* _is_empty(_get_ref_value(ref, prior_outputs)): numbers are never empty,
\* lists and texts are when their length is 0, None is.
NumberKeys == {"result", "count"}

ref_is_empty(when, prior_outputs) ==
    IF when.idx < 1 \/ when.idx > Len(prior_outputs) THEN TRUE
    ELSE LET out == prior_outputs[when.idx]
         IN IF ~Has(out, when.key) THEN TRUE
            ELSE IF when.key \in NumberKeys THEN FALSE
            ELSE out[when.key] = << >> \/ out[when.key] = NoText

\* The condition of a branch: an unknown op is False.
branch_cond(when, prior_outputs) ==
    CASE when.op = "empty" -> ref_is_empty(when, prior_outputs)
      [] when.op = "non_empty" -> ~ref_is_empty(when, prior_outputs)
      [] OTHER -> FALSE

\* One entry of the chosen arm as a worklist step, or nothing.
expand_item(c, inputs_map) ==
    CASE c.shape = "obligation" -> <<c>>
      [] c.shape = "typekind" ->
            <<ObStep(c.type,
                     (IF Has(inputs_map, c.kind) THEN inputs_map[c.kind] ELSE << >>)
                        @@ ("kind" :> c.kind),
                     None)>>
      [] c.shape = "payload" ->
            <<ObStep(IF c.type # None THEN c.type ELSE "REPORT", c.payload, None)>>
      [] OTHER -> << >>

\* The worklist entries of the chosen arm; each remembers the branch it came
\* from (its index in the steps list), its arm and its place in the arm.
RECURSIVE expand_arm(_, _, _, _, _)
expand_arm(chosen, inputs_map, at, arm, k) ==
    IF k > Len(chosen) THEN << >>
    ELSE [j \in 1..Len(expand_item(chosen[k], inputs_map)) |->
             [step |-> expand_item(chosen[k], inputs_map)[j],
              origin |-> <<at, arm, k>>]]
         \o expand_arm(chosen, inputs_map, at, arm, k + 1)

\* work = [st for st in steps if isinstance(st, dict)]
initial_work(steps) ==
    SelectSeq([j \in 1..Len(steps) |-> [step |-> steps[j], origin |-> <<j, 0, 0>>]],
              LAMBDA w : w.step.shape # "string")

\* What the worklist loop hands back: the state, the sub-results so far and
\* whether an exception left the loop.
Work(st, subs, raised) == [st |-> st, subs |-> subs, raised |-> raised]

\* work = work[: i + 1] + expanded + work[i + 1 :], i the 1-based cursor
splice_at_end(work, i, expanded) == work \o expanded

\* A splice that inserts the chosen arm twice.
splice_twice(work, i, expanded) ==
    SubSeq(work, 1, i) \o expanded \o expanded \o SubSeq(work, i + 1, Len(work))

splice(work, i, expanded) ==
    SubSeq(work, 1, i) \o expanded \o SubSeq(work, i + 1, Len(work))

\* The worklist loop "while i < len(work)", from entry i on.
RECURSIVE run_work(_, _, _, _, _, _, _, _)
run_work(st, id, work, i, exec_idx, prior_outputs, subs, inputs_map) ==
    IF i > Len(work) THEN Work(st, subs, FALSE)
    ELSE LET w == work[i]
             step == w.step
         IN CASE step.shape = "obligation" ->
                   LET step_type == step.obligation.type
                       step_payload == step.obligation.payload
                       sid == StepId(id, exec_idx + 1)
                   IN IF step_type = None THEN Work(st, subs, TRUE)
                      ELSE IF step_type = "CLARIFY"
                      THEN LET slot == Get(step_payload, "slot")
                               sr == [ExecutionResult(sid) EXCEPT
                                         !.outputs = [clarify |-> slot,
                                                      final_answer |-> NoText],
                                         !.clarify_slot =
                                             IF Truthy(slot) THEN slot ELSE None,
                                         !.inputs = step_payload]
                           IN Work(Logged(st, "step", sid, "CLARIFY", w.origin),
                                   Append(subs, sr), FALSE)
                      ELSE LET step_ob ==
                                  [type |-> step_type,
                                   payload |-> resolve_templates(step_payload,
                                                                 prior_outputs)]
                               st1 == Logged(create_obligation(st, sid, step_type, "active"),
                                             "step", sid, step_type, w.origin)
                           IN IF ~parse_ok(step_ob) THEN Work(st1, subs, TRUE)
                              ELSE LET r == execute_plan_loop(st1, sid, step_ob,
                                                              step.derived_from)
                                       sr == r.res
                                   IN IF r.raised THEN Work(r.st, subs, TRUE)
                                      ELSE IF Truthy(sr.clarify_slot) \/ ~sr.success
                                      THEN Work(r.st, Append(subs, sr), FALSE)
                                      ELSE run_work(r.st, id, work, i + 1,
                                                    exec_idx + 1,
                                                    Append(prior_outputs, sr.outputs),
                                                    Append(subs, sr), inputs_map)
              [] step.shape = "branch" ->
                   LET cond == branch_cond(step.when, prior_outputs)
                       expanded ==
                          expand_arm(IF cond THEN step.then ELSE step.else,
                                     inputs_map, w.origin[1],
                                     IF cond THEN 1 ELSE 2, 1)
                   IN run_work(Logged(st, "branch", id, None,
                                      <<w.origin[1], IF cond THEN 1 ELSE 2>>),
                               id,
                               splice(work, i, expanded),
                               i + 1, exec_idx, prior_outputs, subs, inputs_map)
              [] OTHER ->
                   run_work(st, id, work, i + 1, exec_idx, prior_outputs, subs,
                            inputs_map)

\* A summary that lists the answers last step first.
step_answers_reversed(subs) ==
    [j \in 1..Len(subs) |->
        IF Has(subs[Len(subs) + 1 - j].outputs, "final_answer")
        THEN subs[Len(subs) + 1 - j].outputs["final_answer"]
        ELSE NoText]

\* answers.append(fa if isinstance(fa, str) else None)
step_answers(subs) ==
    [j \in 1..Len(subs) |->
        IF Has(subs[j].outputs, "final_answer") THEN subs[j].outputs["final_answer"]
        ELSE NoText]

\* The summary of the executed steps, the bubbling up of the terminal step's
\* failure or clarify, and the except branch of the composition.
after_trajectory_masking(rw, cx, tool_outputs, assertions) ==
    enforce_and_finish(rw.st, cx, tool_outputs, assertions, rw.subs)

after_trajectory(rw, cx, tool_outputs, assertions) ==
    IF rw.raised
    THEN Ret(update_obligation_status(rw.st, cx.id, "failed"),
             [Failure(cx, assertions,
                      ("trajectory_exec_error" :> "raised") @@ tool_outputs)
                 EXCEPT !.sub_results = rw.subs,
                        !.error = "Trajectory execution failed"])
    ELSE LET answers == step_answers(rw.subs)
             summary == ("executed_step_answers" :> answers)
                        @@ ("final_answer" :> json_dumps(answers))
                        @@ tool_outputs
             terminal == rw.subs[Len(rw.subs)]
         IN IF rw.subs # << >>
               /\ (Truthy(terminal.clarify_slot) \/ ~terminal.success)
            THEN Ret(update_obligation_status(rw.st, cx.id, "failed"),
                     [Failure(cx, assertions, summary)
                         EXCEPT !.sub_results = rw.subs,
                                !.clarify_slot = terminal.clarify_slot,
                                !.error = terminal.error])
            ELSE enforce_and_finish(rw.st, cx, summary, assertions, rw.subs)

\* Composition: a trajectory with obligation or branch steps is executed.
run_trajectory(st, cx, tool_outputs, assertions) ==
    LET traj == IF Has(tool_outputs, "trajectory") THEN tool_outputs["trajectory"]
                ELSE [steps |-> << >>]
        steps == traj.steps
        has_executable_steps ==
            \E j \in 1..Len(steps) : steps[j].shape \in {"obligation", "branch"}
        inputs_map == IF Has(traj, "inputs_map") THEN traj["inputs_map"] ELSE << >>
    IN IF has_executable_steps
       THEN after_trajectory(
               run_work(st, cx.id, initial_work(steps), 1, 0, << >>, << >>,
                        inputs_map),
               cx, tool_outputs, assertions)
       ELSE enforce_and_finish(st, cx, tool_outputs, assertions, << >>)

\* Steps 4 to 7 of the plan loop: the tool's error, the assertions, the final
\* answer, the first guardrail check, truncation and clarify.
after_execution(st, cx, tool_outputs) ==
    IF Has(tool_outputs, "nondict") THEN plan_loop_failed(st, cx.id)
    ELSE IF Has(tool_outputs, "error")
    THEN Ret(st, [Failure(cx, << >>, tool_outputs)
                     EXCEPT !.error = tool_outputs["error"]])
    ELSE LET assertions == create_assertions_from_outputs(cx.tool, tool_outputs, cx.id)
             st1 == create_assertions(st, assertions)
             outputs1 == ensure_final_answer(cx.tool.name, tool_outputs, assertions)
             chk_out == check_guardrails(cx.ob)
         IN IF guardrails_of(cx.ob) # << >> /\ Get(chk_out, "status") = "failed"
            THEN guardrail_failed(
                    Logged(st1, "guard", cx.id, "GuardrailChecker", <<1, 0, 1>>),
                    cx, outputs1, assertions, chk_out)
            ELSE LET st2 == IF guardrails_of(cx.ob) # << >>
                            THEN Logged(st1, "guard", cx.id, "GuardrailChecker",
                                        <<1, 0, 0>>)
                            ELSE st1
                 IN IF Get(outputs1, "status") = "truncated"
                    THEN Ret(update_obligation_status(st2, cx.id, "failed"),
                             Failure(cx, assertions, outputs1))
                    ELSE IF Truthy(Get(outputs1, "clarify"))
                    THEN Ret(st2, [Failure(cx, assertions, outputs1)
                                      EXCEPT !.clarify_slot = outputs1["clarify"]])
                    ELSE run_trajectory(st2, cx, outputs1, assertions)

BudgetExceeded(budget_error) ==
    [status |-> "budget_exceeded", budget_error |-> budget_error]

\* getattr(selected_tool, "depends_on", None) or []: the ToolContract
\* dataclass has no depends_on field and _load_tool_contract copies none
\* from the contract file.
contract_depends_on(tool) ==
    IF "depends_on" \in DOMAIN tool THEN tool["depends_on"] ELSE << >>

\* Step 3b/3c: the cache lookup, the cache-miss gate and the execution.
cache_stage(st, cx0) ==
    LET tool == cx0.tool
        tool_inputs == prepare_tool_inputs(tool, cx0.ob)
        cache_key == compute_input_hash(tool.name, tool_inputs, tool.version,
                                        contract_depends_on(tool),
                                        st.world).cache_key
        st1 == Logged(st, "lookup", cx0.id, tool.name, <<st.world.env>>)
        hit == cache_matches(st, tool.name, cache_key, tool.version) # {}
        cx == [id |-> cx0.id, ob |-> cx0.ob, tool |-> tool,
               tool_inputs |-> tool_inputs, cache_key |-> cache_key,
               cache_hit |-> hit,
               reason |-> IF hit THEN "hit" ELSE "miss_not_found"]
    IN IF hit
       THEN after_execution(st1, cx,
                            lookup_tool_cache(st, tool.name, cache_key, tool.version))
       ELSE IF ~check_cache_miss(st.budget)
       THEN Ret(st1, [Failure(cx, << >>, BudgetExceeded("cache_miss"))
                         EXCEPT !.error = "Capability budget exceeded"])
       ELSE LET st2 == [st1 EXCEPT !.budget.cache_misses = @ + 1]
                tool_outputs == execute_tool(tool.name, tool_inputs)
                st3 == [st2 EXCEPT !.budget.tool_runs = @ + 1]
            IN after_execution(Logged(st3, "exec", cx0.id, tool.name, <<cache_key>>),
                               cx, tool_outputs)

\* Step 3a (second): the tool-run gate.
budget_gate(st, cx0) ==
    IF ~check_tool_run(st.budget)
    THEN Ret(Logged(st, "gate", cx0.id, cx0.tool.name, <<0>>),
             [ExecutionResult(cx0.id) EXCEPT
                 !.tool_name = cx0.tool.name,
                 !.error = "Capability budget exceeded",
                 !.outputs = BudgetExceeded("tool_run")])
    ELSE cache_stage(Logged(st, "gate", cx0.id, cx0.tool.name, <<1>>), cx0)

\* Step 3a (first): the support tools of the selected tool's preconditions
\* are run through the executor, their outputs dropped.
RECURSIVE run_supports(_, _, _)
run_supports(st, id, support_tools) ==
    IF support_tools = << >> THEN st
    ELSE run_supports(Logged(st, "support", id, Head(support_tools).name, << >>),
                      id, Tail(support_tools))

\* No candidate, or no candidate that accepts the payload.
missing_capability(st, id, ob, reason, candidate_tools) ==
    Ret(update_obligation_status(Logged(st, "missing", id, reason, << >>),
                                 id, "failed"),
        [ExecutionResult(id) EXCEPT
            !.error = "Missing capability",
            !.inputs = ob.payload,
            !.outputs =
               [status |-> "missing_capability",
                missing_capability |->
                   build_missing_capability_payload(id, ob, reason, candidate_tools)]])

\* A conductor that honours every registered plan-chosen tool.
forced_tool_unchecked(ob, forced_tool_name, candidate_tools) ==
    IF forced_tool_name = None THEN NoTool ELSE get_tool(Tools, forced_tool_name)

\* Step 2: a plan-chosen tool is honoured only if it is a candidate, accepts
\* the payload and meets constraints.requires; the result is a name or None.
forced_tool(ob, forced_tool_name, candidate_tools) ==
    LET ft == get_tool(Tools, forced_tool_name)
        constraints == IF Has(ob.payload, "constraints") THEN ob.payload["constraints"]
                       ELSE << >>
        required_supports == IF Has(constraints, "requires") THEN constraints["requires"]
                             ELSE << >>
    IN IF forced_tool_name = None \/ ft = NoTool THEN NoTool
       ELSE IF ~\E j \in 1..Len(candidate_tools) : candidate_tools[j].name = ft.name
       THEN NoTool
       ELSE IF ~validate_tool_inputs(ft, ob.payload) THEN NoTool
       ELSE IF \E j \in 1..Len(required_supports) :
                   required_supports[j] \notin ft.supports
       THEN NoTool
       ELSE ft

\* Steps 1 to 3 for an obligation no special case took.
dispatch(st, id, ob, forced_tool_name) ==
    LET candidate_tools == find_tools_for_obligation(Tools, ob.type)
        names == [j \in 1..Len(candidate_tools) |-> candidate_tools[j].name]
        ft == forced_tool(ob, forced_tool_name, candidate_tools)
        selected_tool == IF ft # NoTool THEN ft
                         ELSE select_best_tool(Tools, ob.type, ob.payload, SeedOf(id))
    IN IF candidate_tools = << >>
       THEN IF ob.type = "REPORT" /\ Get(ob.payload, "kind") = "status"
               /\ Get(ob.payload, "field") = "name"
            THEN Ret(st, [ExecutionResult(id) EXCEPT !.clarify_slot = "name",
                                                     !.error = "CLARIFY(name) required"])
            ELSE missing_capability(st, id, ob, "no_matching_tools", << >>)
       ELSE IF selected_tool = NoTool
       THEN missing_capability(st, id, ob, "no_candidate_accepts_payload", names)
       ELSE budget_gate(
               run_supports(
                  Logged(st, "select", id, selected_tool.name,
                         <<compute_input_hash(
                              selected_tool.name,
                              prepare_tool_inputs(selected_tool, ob),
                              selected_tool.version,
                              contract_depends_on(selected_tool),
                              st.world).cache_key>>),
                  id, find_support_tools(Tools, selected_tool.preconditions)),
               [id |-> id, ob |-> ob, tool |-> selected_tool])

\* Special case ACHIEVE(status.name) with a value: saved directly.
memory_save(st, id, ob) ==
    LET assertion == Assertion(id, <<"name">>, <<"E1">>, "name",
                               <<ob.payload["value"]>>)
    IN Ret(update_obligation_status(create_assertions(st, <<assertion>>),
                                    id, "resolved"),
           [ExecutionResult(id) EXCEPT
               !.success = TRUE, !.tool_name = "MemorySave",
               !.assertions = <<assertion>>,
               !.inputs = [state |-> ob.payload["state"],
                           value |-> ob.payload["value"]],
               !.outputs = [saved |-> TRUE]])

\* A read that answers the first name ever saved.
memory_read_first(st, id) ==
    LET found == name_assertions(st)
    IN IF found # << >>
       THEN Ret(st, [ExecutionResult(id) EXCEPT
                        !.success = TRUE, !.tool_name = "MemoryRead",
                        !.assertions = <<found[1]>>,
                        !.inputs = [field |-> "name"],
                        !.outputs = [name |-> found[1].object]])
       ELSE Ret(update_obligation_status(st, id, "active"),
                [ExecutionResult(id) EXCEPT !.clarify_slot = "name",
                                            !.error = "CLARIFY(name) required"])

\* Special case REPORT status.name: read the stored name or clarify.
memory_read(st, id) ==
    LET found == name_assertions(st)
    IN IF found # << >>
       THEN Ret(st, [ExecutionResult(id) EXCEPT
                        !.success = TRUE, !.tool_name = "MemoryRead",
                        !.assertions = <<found[Len(found)]>>,
                        !.inputs = [field |-> "name"],
                        !.outputs = [name |-> found[Len(found)].object]])
       ELSE Ret(update_obligation_status(st, id, "active"),
                [ExecutionResult(id) EXCEPT !.clarify_slot = "name",
                                            !.error = "CLARIFY(name) required"])

(***************************************************************************)
(* core/skills.py : the skills of the registry and their compilation       *)
(***************************************************************************)
Ob(type, payload) == [type |-> type, payload |-> payload]

\* The skills loaded from the skills directory: name -> obligations.
Skills ==
    [math_count |-> <<Ob("REPORT", [kind |-> "math", expr |-> "2+2"]),
                      Ob("REPORT", [kind |-> "count", letter |-> "r",
                                    word |-> "strawberry"])>>,
     ask_name |-> <<Ob("REPORT", [kind |-> "status.name"])>>,
     math_twice |-> <<Ob("REPORT", [kind |-> "math", expr |-> "3*3"]),
                      Ob("REPORT", [kind |-> "math", expr |-> "3*3"])>>]

\* f"Skill:{skill_name}"
SkillToolName(skill_name) ==
    CASE skill_name = "math_count" -> "Skill:math_count"
      [] skill_name = "ask_name" -> "Skill:ask_name"
      [] skill_name = "math_twice" -> "Skill:math_twice"
      [] OTHER -> "Skill:"

\* SkillRegistry.compile_to_obligations for a skill that exists: constraints
\* are merged into the ACHIEVE plan obligations.
compile_to_obligations(skill_name, inputs) ==
    [j \in 1..Len(Skills[skill_name]) |->
        LET ob == Skills[skill_name][j]
        IN IF Has(inputs, "constraints") /\ ob.type = "ACHIEVE"
              /\ Get(ob.payload, "state") = "plan"
           THEN Ob(ob.type, ("constraints" :> inputs["constraints"]) @@ ob.payload)
           ELSE ob]

\* for i, comp_ob in enumerate(compiled_obligations): the plan loop on each
RECURSIVE run_compiled(_, _, _, _, _)
run_compiled(st, id, compiled, i, subs) ==
    IF i >= Len(compiled) THEN Work(st, subs, FALSE)
    ELSE LET r == execute_plan_loop(st, SkillId(id, i), compiled[i + 1], None)
         IN IF r.raised THEN Work(r.st, subs, TRUE)
            ELSE run_compiled(r.st, id, compiled, i + 1, Append(subs, r.res))

RECURSIVE all_assertions(_)
all_assertions(subs) ==
    IF subs = << >> THEN << >>
    ELSE Head(subs).assertions \o all_assertions(Tail(subs))

SkillError(id, ob, error) ==
    [ExecutionResult(id) EXCEPT !.error = error, !.inputs = ob.payload,
                                !.outputs = [status |-> "error"]]

\* Special case RUN_SKILL: compile, take the skill's capability budgets,
\* execute the compiled obligations and aggregate.
run_skill(st, id, ob) ==
    LET payload == ob.payload
        skill_name == Get(payload, "name")
        skill_inputs == IF Has(payload, "inputs") THEN payload["inputs"] ELSE << >>
        constraints == IF Has(payload, "constraints") THEN payload["constraints"]
                       ELSE << >>
        capability_budgets == IF Has(payload, "capability_budgets")
                              THEN payload["capability_budgets"] ELSE << >>
        skill_inputs_with_extras ==
            IF constraints # << >> THEN ("constraints" :> constraints) @@ skill_inputs
            ELSE skill_inputs
    IN IF ~Truthy(skill_name)
       THEN Ret(st, SkillError(id, ob, "RUN_SKILL missing 'name' in payload"))
       ELSE IF skill_name \notin DOMAIN Skills
       THEN Ret(st, SkillError(id, ob, "Skill execution failed"))
       ELSE LET compiled == compile_to_obligations(skill_name, skill_inputs_with_extras)
                st1 == IF capability_budgets # << >>
                       THEN [st EXCEPT !.budget = CapabilityBudget(capability_budgets)]
                       ELSE st
            IN IF \E j \in 1..Len(compiled) : ~parse_ok(compiled[j])
               THEN Ret(st1, SkillError(id, ob, "Skill execution failed"))
               ELSE LET rw == run_compiled(st1, id, compiled, 0, << >>)
                    IN IF rw.raised
                       THEN Ret(rw.st, SkillError(id, ob, "Skill execution failed"))
                       ELSE Ret(rw.st,
                                [ExecutionResult(id) EXCEPT
                                    !.success = \A j \in 1..Len(rw.subs) :
                                                    rw.subs[j].success,
                                    !.tool_name = SkillToolName(skill_name),
                                    !.assertions = all_assertions(rw.subs),
                                    !.inputs = skill_inputs,
                                    !.outputs = [compiled_obligations |-> Len(compiled),
                                                 sub_results |-> Len(rw.subs)],
                                    !.sub_results = rw.subs])

\* Conductor._execute_plan_loop(obligation_id, parsed_obligation,
\* forced_tool_name)
execute_plan_loop(st, id, ob, forced_tool_name) ==
    IF ob.type = "RUN_SKILL" THEN run_skill(st, id, ob)
    ELSE IF ob.type = "ACHIEVE" /\ Get(ob.payload, "state") = "status.name"
            /\ Truthy(Get(ob.payload, "value"))
    THEN memory_save(st, id, ob)
    ELSE IF ob.type = "REPORT"
            /\ Get(ob.payload, "kind") \in {"status.name", "status"}
            /\ (Get(ob.payload, "kind") = "status.name"
                \/ Get(ob.payload, "field") = "name")
    THEN memory_read(st, id)
    ELSE dispatch(st, id, ob, forced_tool_name)

(***************************************************************************)
(* conductor/conductor.py : Conductor.process_request and the trace        *)
(***************************************************************************)
\* The conductor's state as the plan loop threads it, and its write-back.
St ==
    [obls |-> db.obls, asserts |-> db.asserts, runs |-> db.runs,
     budget |-> capability_budget, log |-> log, world |-> world]

SetSt(st) ==
    /\ db' = [db EXCEPT !.obls = st.obls, !.asserts = st.asserts, !.runs = st.runs]
    /\ capability_budget' = st.budget
    /\ log' = st.log

\* Conductor._flatten_execution_results
RECURSIVE flatten_execution_results(_)
flatten_execution_results(execution_results) ==
    IF execution_results = << >> THEN << >>
    ELSE <<Head(execution_results)>>
         \o flatten_execution_results(Head(execution_results).sub_results)
         \o flatten_execution_results(Tail(execution_results))

\* missing_caps: the missing_capability dict of every flat result that has one
collect_missing_caps(flat_results) ==
    LET with == SelectSeq(flat_results,
                          LAMBDA er : Has(er.outputs, "missing_capability"))
    IN [j \in 1..Len(with) |-> with[j].outputs["missing_capability"]]

\* for mc in missing_caps: check_toolsmith_call, break, toolsmith_calls += 1
RECURSIVE count_toolsmith_calls(_, _)
count_toolsmith_calls(b, n) ==
    IF n = 0 \/ ~check_toolsmith_call(b) THEN b
    ELSE count_toolsmith_calls([b EXCEPT !.toolsmith_calls = @ + 1], n - 1)

\* OB_DISCOVER_{i}_{trace_id}
DiscoverId(trace_id, i) == <<trace_id, 0, i>>

RECURSIVE emit_discover_ops(_, _, _, _)
emit_discover_ops(st, trace_id, missing_caps, i) ==
    IF i > Len(missing_caps) THEN st
    ELSE emit_discover_ops(
            create_obligation(st, DiscoverId(trace_id, i), "DISCOVER_OP", "active"),
            trace_id, missing_caps, i + 1)

\* What one successful result contributes to the final answer, or NoText.
result_answer(result) ==
    LET named == SelectSeq(result.assertions, LAMBDA a : a.predicate = "name")
        valued == SelectSeq(result.assertions,
                            LAMBDA a : a.predicate \in {"evaluatesTo",
                                                        "containsLetterCount"})
    IN IF HasText(result.outputs, "final_answer") THEN result.outputs["final_answer"]
       ELSE IF named # << >> THEN named[1].object
       ELSE IF result.tool_name \in {"EvalMath", "TextOps.CountLetters"}
               /\ valued # << >>
       THEN valued[1].object
       ELSE IF result.tool_name = "Reasoning.Core"
               /\ Get(result.outputs, "kind") = "logic.answer"
       THEN IF Get(result.outputs, "value") = "True" THEN <<"true">> ELSE <<"false">>
       ELSE IF result.tool_name = "Reasoning.Core"
               /\ Get(result.outputs, "kind") = "plan"
       THEN json_steps(IF Has(result.outputs, "trajectory")
                       THEN result.outputs["trajectory"].steps ELSE << >>)
       ELSE NoText

\* Conductor._generate_final_answer, verification passed; "" is the empty text
generate_final_answer(execution_results) ==
    LET answering == SelectSeq(execution_results,
                               LAMBDA er : er.success /\ result_answer(er) # NoText)
    IN IF \E j \in 1..Len(execution_results) :
             Truthy(execution_results[j].clarify_slot)
       THEN << >>
       ELSE IF answering # << >> THEN result_answer(answering[1])
       ELSE <<"I couldn't generate a proper answer.">>

\* Conductor._create_error_response
create_error_response(trace_id) ==
    [trace_id |-> trace_id, obligations |-> << >>, tool_runs |-> << >>,
     assertions |-> << >>, verification |-> [passed |-> FALSE],
     final_answer |-> <<"Error">>]

(***************************************************************************)
(* The requests submitted to the conductor.                                *)
(***************************************************************************)
Math == Ob("REPORT", [kind |-> "math", expr |-> "2+2"])

MathErr == Ob("REPORT", [kind |-> "math", expr |-> "1/0"])

Count == Ob("REPORT", [kind |-> "count", letter |-> "r", word |-> "strawberry"])

Haiku == Ob("REPORT", [kind |-> "haiku"])

Justify == Ob("JUSTIFY", [claim |-> "c"])

NameRead == Ob("REPORT", [kind |-> "status.name"])

NameSave == Ob("ACHIEVE", [state |-> "status.name", value |-> "Ada"])

Broken == Ob("REPORT", [kind |-> "broken"])

Normalize == Ob("REPORT", [kind |-> "normalize_email", email |-> " A@X.com "])

\* The depends_on list the contract file of a tool declares.
DeclaredDependsOn(name) ==
    IF name = "Normalize.Email" THEN <<Dep("env", "X")>> ELSE << >>

\* The normalizer called without an email: the tool raises ValueError.
NormalizeNoEmail == Ob("REPORT", [kind |-> "normalize_email"])

\* kind logic without mode: the parser raises
NoMode == Ob("REPORT", [kind |-> "logic"])

Item(type, kind) == [type |-> type, kind |-> kind]

SequenceGoal(sequence, inputs) ==
    [predicate |-> "capability.sequence",
     args |-> [sequence |-> sequence, inputs |-> inputs]]

EventGoal(person) == [predicate |-> "event.scheduled", args |-> [person |-> person]]

PlanOb(goal) == Ob("ACHIEVE", [state |-> "plan", mode |-> "planning", goal |-> goal])

Guarded(ob, guardrails) ==
    Ob(ob.type, ("guardrails" :> guardrails) @@ ob.payload)

FailingGuardrails == <<[predicate |-> "double_book", args |-> << >>]>>

PassingGuardrails == <<[predicate |-> "calendar.free", args |-> <<"Bob">>]>>

MathCountInputs ==
    ("query.math" :> [expr |-> "2+2"])
    @@ ("query.count" :> [letter |-> "r", word |-> "strawberry"])

PlanSeq ==
    PlanOb(SequenceGoal(<<Item("REPORT", "query.math"), Item("REPORT", "query.count")>>,
                        MathCountInputs))

\* the count item lacks its word: the planner asks for it
PlanClarify ==
    PlanOb(SequenceGoal(<<Item("REPORT", "query.count")>>,
                        ("query.count" :> [letter |-> "r"])))

\* an item whose only candidate declares no schema
PlanMismatch ==
    PlanOb(SequenceGoal(<<Item("REPORT", "broken")>>, ("broken" :> << >>)))

\* an item no tool consumes
PlanMissing ==
    PlanOb(SequenceGoal(<<Item("REPORT", "haiku")>>, << >>))

EventDana == PlanOb(EventGoal("Dana"))

EventBob == PlanOb(EventGoal("Bob"))

WorkflowOb(w) ==
    Ob("ACHIEVE", [state |-> "plan.workflow", kind |-> "plan.workflow",
                   workflow |-> w])

Workflows ==
    {"seq", "fail", "haiku", "clarify", "then", "else", "then_clarify", "bad",
     "template", "strings", "dangling", "nokey",
     "ref", "ref_nokey", "ref_dangling", "ref_text", "forced"}

SkillOb(name) == Ob("RUN_SKILL", [name |-> name])

WithBudgets(ob, capability_budgets) ==
    Ob(ob.type, ("capability_budgets" :> capability_budgets) @@ ob.payload)

Catalogue ==
    {Math, MathErr, Count, Haiku, Justify, NameRead, NameSave, Broken, NoMode,
     NormalizeNoEmail,
     PlanSeq, Guarded(PlanSeq, FailingGuardrails), Guarded(PlanSeq, PassingGuardrails),
     PlanClarify, PlanMismatch, PlanMissing,
     EventDana, Guarded(EventDana, FailingGuardrails), EventBob,
     Guarded(EventBob, PassingGuardrails),
     SkillOb("math_count"), SkillOb("ask_name"), SkillOb("math_twice"),
     SkillOb("unknown"),
     WithBudgets(SkillOb("math_count"), [max_tool_runs |-> 1])}
    \cup {WorkflowOb(w) : w \in Workflows}

Batches == UNION {[1..n -> Catalogue] : n \in 1..MaxBatch}

\* obligations_data["capability_budgets"]
BudgetChoices ==
    {<< >>, [max_tool_runs |-> 1], [max_tool_runs |-> 2], [max_cache_misses |-> 1],
     [max_tool_runs |-> 3, max_toolsmith_calls |-> 1]}

\* process_request up to the plan loops: the event, the parse, the budget of
\* the request, the stored obligations.
ProcessRequestBeginFrom(batches, budgets) ==
    /\ req.phase \in {"idle", "done", "raised"}
    /\ req.trace_id % (MaxRequests + 1) < MaxRequests
    /\ \E batch \in batches, capability_budgets \in budgets :
          LET trace_id == req.trace_id + 1
              ids == [j \in 1..Len(batch) |-> ObligationId(trace_id, j)]
              stored == [id \in Range(ids) |->
                            [kind |-> batch[CHOOSE j \in 1..Len(batch) : ids[j] = id].type,
                             status |-> "active"]]
              started == [phase |-> "run", trace_id |-> trace_id,
                          obligations |-> batch,
                          capability_budgets |-> capability_budgets,
                          ids |-> ids, results |-> << >>]
          IN IF \E j \in 1..Len(batch) : ~parse_ok(batch[j])
             THEN /\ db' = [db EXCEPT !.events = Append(@, trace_id)]
                  /\ req' = [started EXCEPT !.phase = "done", !.ids = << >>]
                  /\ trace' = create_error_response(trace_id)
                  /\ UNCHANGED capability_budget
             ELSE /\ db' = [db EXCEPT !.events = Append(@, trace_id),
                                      !.obls = stored @@ @]
                  /\ req' = started
                  /\ trace' = [trace_id |-> trace_id]
                  /\ capability_budget' = CapabilityBudget(capability_budgets)
    /\ log' = << >>
    /\ UNCHANGED <<world, probes, depends, regA, regB, ask, picked, other, canon, verification, conn>>

\* One turn of "for obligation_id, parsed_obligation in zip(...)": the plan
\* loop on the next obligation; an exception leaving it ends process_request.
ExecutePlanLoop ==
    /\ req.phase = "run"
    /\ Len(req.results) < Len(req.obligations)
    /\ LET j == Len(req.results) + 1
           r == execute_plan_loop(St, req.ids[j], req.obligations[j], None)
       IN /\ SetSt(r.st)
          /\ req' = IF r.raised THEN [req EXCEPT !.phase = "raised"]
                    ELSE [req EXCEPT !.results = Append(@, r.res)]
    /\ UNCHANGED <<world, probes, depends, regA, regB, ask, picked, trace, other, canon, verification, conn>>

\* process_request after the plan loops: missing capabilities and their
\* DISCOVER_OP obligations, the final answer, the status, the trace.
ProcessRequestEnd ==
    /\ req.phase = "run"
    /\ Len(req.results) = Len(req.obligations)
    /\ LET execution_results == req.results
           flat_results == flatten_execution_results(execution_results)
           missing_caps == collect_missing_caps(flat_results)
           st1 == [St EXCEPT !.budget = count_toolsmith_calls(@, Len(missing_caps))]
           st2 == emit_discover_ops(st1, req.trace_id, missing_caps, 1)
           clarify == SelectSeq([j \in 1..Len(execution_results) |->
                                    execution_results[j].clarify_slot], Truthy)
           status == IF clarify # << >> THEN "clarify"
                     ELSE IF \A j \in 1..Len(execution_results) :
                                execution_results[j].success
                     THEN "resolved" ELSE "failed"
       IN /\ SetSt(st2)
          /\ trace' =
                (IF missing_caps # << >>
                 THEN [missing_capabilities |-> missing_caps,
                       emitted_obligations |->
                          [i \in 1..Len(missing_caps) |->
                              [id |-> DiscoverId(req.trace_id, i),
                               type |-> "DISCOVER_OP",
                               payload |-> [goal |-> missing_caps[i]]]]]
                 ELSE << >>)
                @@ (IF clarify # << >> THEN [clarify |-> clarify] ELSE << >>)
                @@ [trace_id |-> req.trace_id,
                    tool_runs |-> flat_results,
                    assertions |-> all_assertions(flat_results),
                    status |-> status,
                    final_answer |-> generate_final_answer(execution_results),
                    capability_budget |-> st2.budget]
    /\ req' = [req EXCEPT !.phase = "done"]
    /\ UNCHANGED <<world, probes, depends, regA, regB, ask, picked, other, canon, verification, conn>>

ProcessRequestBegin == ProcessRequestBeginFrom(Batches, BudgetChoices)

Init ==
    /\ world = World0
    /\ probes = << >>
    /\ depends = << >>
    /\ regA = << >>
    /\ regB = << >>
    /\ ask = [type |-> None, payload |-> << >>, seed |-> 0]
    /\ picked = << >>
    /\ ConductorIdle

Next == ProcessRequestBegin \/ ExecutePlanLoop \/ ProcessRequestEnd

Spec == Init /\ [][Next]_vars

(***************************************************************************)
(* api.py : two requests served concurrently by the one shared Conductor   *)
(***************************************************************************)
\* The batches and budgets the two concurrent clients submit.
SharedBatches == UNION {[1..n -> {Math, Count}] : n \in 1..MaxBatch}

SharedBudgets ==
    {<< >>, [max_tool_runs |-> 1], [max_cache_misses |-> 1]}

SharedBegin == ProcessRequestBeginFrom(SharedBatches, SharedBudgets)

\* The threadpool runs the other request's thread: it continues its own
\* process_request call on the same Conductor object and the same store.
SwitchThread ==
    /\ other' = [req |-> req, trace |-> trace, log |-> log]
    /\ req' = other.req
    /\ trace' = other.trace
    /\ log' = other.log
    /\ UNCHANGED <<world, probes, depends, regA, regB, ask, picked,
                   db, capability_budget, canon, verification, conn>>

NextShared == SharedBegin \/ ExecutePlanLoop \/ ProcessRequestEnd \/ SwitchThread

SpecShared == Init /\ [][NextShared]_vars

(***************************************************************************)
(* Two independent runs of one batch against one registry: each call of    *)
(* process_request draws its trace_id with uuid.uuid4() and seeds the      *)
(* selection with the obligation id built from it.                         *)
(***************************************************************************)
MaxUuid == 3

Uuids == 1..MaxUuid

\* Run r of the batch: trace_id = str(uuid.uuid4()), the obligation id
\* OB_1_<trace_id> and select_best_tool(..., selection_seed=obligation_id).
RunBatch(r) ==
    /\ ~Has(picked, r)
    /\ \E trace_id \in Uuids :
          picked' = (r :> [trace_id |-> trace_id,
                           tool |-> select_best_tool(
                                        regA, ask.type, ask.payload,
                                        SeedOf(ObligationId(trace_id, 1))).name])
                       @@ picked
    /\ UNCHANGED <<world, probes, depends, regA, regB, ask, conductorVars>>

InitRuns ==
    /\ world = World0
    /\ probes = << >>
    /\ depends = << >>
    /\ regA \in Orders(Contracts)
    /\ regB = regA
    /\ \E p \in AskPayloads : ask = [type |-> "REPORT", payload |-> p, seed |-> 0]
    /\ picked = << >>
    /\ ConductorIdle

NextRuns == RunBatch("first") \/ RunBatch("second")

SpecRuns == InitRuns /\ [][NextRuns]_vars

(***************************************************************************)
(* select_best_tool over registries of math tools of different latencies.  *)
(***************************************************************************)
\* A contract like EvalMath.Slow's with latency_ms 400.
EvalMathMid ==
    ToolContract("EvalMath.Mid", "1.0.0", <<"query.math">>,
                 <<Pat("REPORT", "query.math")>>, {}, {},
                 "high", "tiny", 400, "blocking")

LatencyPool == {EvalMath, EvalMathSlow, EvalMathMid, CountLetters}

InitLatency ==
    /\ world = World0
    /\ probes = << >>
    /\ depends = << >>
    /\ \E S \in SUBSET LatencyPool : S # {} /\ regA \in Orders(S)
    /\ regB = regA
    /\ \E p \in AskPayloads, seed \in 0..MaxSeed :
          ask = [type |-> "REPORT", payload |-> p, seed |-> seed]
    /\ picked = << >>
    /\ ConductorIdle

NextLatency == SelectA

SpecLatency == InitLatency /\ [][NextLatency]_vars

(***************************************************************************)
(* find_tools_for_obligation over registries and obligation types.         *)
(***************************************************************************)
\* The obligation types of the model.
ObligationTypes ==
    {"REPORT", "ACHIEVE", "MAINTAIN", "AVOID", "JUSTIFY", "VERIFY", "CLARIFY",
     "DISCOVER_OP"}

\* A contract whose satisfies list names a type literally.
JustifyLiteral ==
    ToolContract("Justify.Literal", "1.0.0", <<"claim">>,
                 <<Pat("JUSTIFY", None)>>, {}, {},
                 "high", "tiny", 5, "blocking")

\* A contract whose REPORT pattern names a kind it does not consume.
ReportUnconsumed ==
    ToolContract("Report.Unconsumed", "1.0.0", <<"query.math">>,
                 <<Pat("REPORT", "query.other")>>, {}, {},
                 "high", "tiny", 5, "blocking")

FindPool == {EvalMath, ReasoningCore, PrepStub, GuardrailChecker, JustifyLiteral,
             ReportUnconsumed}

MaxRegistry == 3

\* registry.find_tools_for_obligation(obligation_type)
FindTools ==
    /\ ~Has(picked, "found")
    /\ picked' = ("found" :> find_tools_for_obligation(regA, ask.type)) @@ picked
    /\ UNCHANGED <<world, probes, depends, regA, regB, ask, conductorVars>>

InitFind ==
    /\ world = World0
    /\ probes = << >>
    /\ depends = << >>
    /\ \E S \in SUBSET FindPool :
          /\ S # {}
          /\ Cardinality(S) <= MaxRegistry
          /\ regA \in Orders(S)
    /\ regB = regA
    /\ \E T \in ObligationTypes : ask = [type |-> T, payload |-> << >>, seed |-> 0]
    /\ picked = << >>
    /\ ConductorIdle

NextFind == FindTools

SpecFind == InitFind /\ [][NextFind]_vars

(***************************************************************************)
(* conductor/conductor.py : _execute_verify_loop                           *)
(***************************************************************************)
\* d.get(key) is a value that Python's `or` keeps: neither None nor empty.
Present(d, key) == Has(d, key) /\ d[key] # << >>

\* "normalize" in tool_name.lower() or "Normalize" in tool_name
IsNormalizer(tool_name) == tool_name \in {"Normalize.Email"}

\* "extract" in tool_name.lower() or "Extract" in tool_name
IsExtractor(tool_name) == tool_name \in {"Extract.Emails"}

\* val.lower().strip() of a one-token text
LowerStrip(val) ==
    [j \in 1..Len(val) |->
        CASE val[j] \in {" A@X.com ", "A@X.com"} -> "a@x.com"
          [] OTHER -> val[j]]

\* isinstance(email, str) and "@" in email and "." in email.split("@")[-1]
is_valid(email) ==
    CASE email \in {"a@x.com", "b@y.org"} -> TRUE
      [] email \in {"a@x", "ax.com"} -> FALSE
      [] OTHER -> FALSE

\* "denylist" in str(result.inputs or {}).lower()
MentionsDenylist(inputs) == Has(inputs, "denylist_domains")

VerificationEvidence(tool_name, check_type, comparison_result) ==
    [tool_name |-> tool_name, check_type |-> check_type,
     comparison_result |-> comparison_result]

\* self.executor.execute_tool(tool_name, result.inputs) for a normalizer: the
\* one normalizer of the registry is run, an exception becomes an error dict.
execute_normalizer(tool_name, inputs) ==
    IF tool_name \notin Implemented THEN [error |-> "not implemented"]
    ELSE LET re_result == normalize_email_run(inputs)
         IN IF Has(re_result, "raised") THEN [error |-> re_result["raised"]]
            ELSE re_result

\* The normalizer branch: the tool is run again and the two normalised
\* values are compared; only two values that are both present and differ
\* set the flag.
verify_recompute(acc, result) ==
    LET re_outputs == execute_normalizer(result.tool_name, result.inputs)
        both == /\ Present(result.outputs, "normalized_email")
                /\ Present(re_outputs, "normalized_email")
        same == both /\ LowerStrip(result.outputs["normalized_email"])
                        = LowerStrip(re_outputs["normalized_email"])
    IN [acc EXCEPT
          !.evidence = Append(@, VerificationEvidence(result.tool_name, "recompute",
                                   IF same THEN "match" ELSE "mismatch")),
          !.any_blocking_fail = IF both /\ ~same THEN TRUE ELSE @,
          !.verify_details = IF both /\ ~same
                             THEN Append(@, <<result.tool_name, "normalized value mismatch">>)
                             ELSE @]

\* The extractor branch: one format check for each extracted email.
RECURSIVE verify_emails(_, _, _, _)
verify_emails(acc, tool_name, emails, idx) ==
    IF idx > Len(emails) THEN acc
    ELSE LET ok == is_valid(emails[idx])
         IN verify_emails(
                [acc EXCEPT
                   !.evidence = Append(@, VerificationEvidence(tool_name, "format_check",
                                            IF ok THEN "match" ELSE "mismatch")),
                   !.any_blocking_fail = IF ok THEN @ ELSE TRUE,
                   !.verify_details = IF ok THEN @
                                      ELSE Append(@, <<tool_name, "invalid email format">>)],
                tool_name, emails, idx + 1)

\* The constraint check: no domain of the denylist among the domains found.
verify_denylist(acc, result) ==
    LET denylist == IF Present(result.inputs, "denylist_domains")
                    THEN result.inputs["denylist_domains"] ELSE << >>
        domains == IF Present(result.outputs, "distinct_domains")
                   THEN result.outputs["distinct_domains"] ELSE << >>
        violated == \E j \in 1..Len(denylist), k \in 1..Len(domains) :
                        denylist[j] = domains[k]
    IN [acc EXCEPT
          !.evidence = Append(@, VerificationEvidence(result.tool_name, "constraint_check",
                                   IF violated THEN "mismatch" ELSE "match")),
          !.any_blocking_fail = IF violated THEN TRUE ELSE @,
          !.verify_details = IF violated
                             THEN Append(@, <<result.tool_name, "denylist not enforced">>)
                             ELSE @]

\* A reset that does not clear the flag.
non_blocking_reset_kept(acc, tool_name, verify_mode) ==
    IF verify_mode = "non_blocking" /\ acc.any_blocking_fail
    THEN [acc EXCEPT
            !.verify_details = Append(@, <<tool_name, "non-blocking verify issues (logged)">>)]
    ELSE acc

\* if verify_mode == "non_blocking" and any_blocking_fail: log and clear
non_blocking_reset(acc, tool_name, verify_mode) ==
    IF verify_mode = "non_blocking" /\ acc.any_blocking_fail
    THEN [acc EXCEPT
            !.verify_details = Append(@, <<tool_name, "non-blocking verify issues (logged)">>),
            !.any_blocking_fail = FALSE]
    ELSE acc

\* One pass of `for result in execution_results`.
verify_result(registry, acc, result) ==
    IF ~result.success \/ result.tool_name = None THEN acc
    ELSE LET tool == get_tool(registry, result.tool_name)
         IN IF tool = NoTool THEN acc
            ELSE IF tool.verify_mode = "off" THEN acc
            ELSE LET emails == IF Present(result.outputs, "emails")
                               THEN result.outputs["emails"] ELSE << >>
                     a1 == IF IsNormalizer(result.tool_name)
                           THEN verify_recompute(acc, result)
                           ELSE IF IsExtractor(result.tool_name)
                           THEN verify_emails(acc, result.tool_name, emails, 1)
                           ELSE acc
                     a2 == IF MentionsDenylist(result.inputs)
                           THEN verify_denylist(a1, result) ELSE a1
                 IN non_blocking_reset(a2, result.tool_name, tool.verify_mode)

RECURSIVE verify_results(_, _, _, _)
verify_results(registry, acc, execution_results, j) ==
    IF j > Len(execution_results) THEN acc
    ELSE verify_results(registry, verify_result(registry, acc, execution_results[j]),
                        execution_results, j + 1)

VerificationResult(passed, method, details, evidence) ==
    [passed |-> passed, method |-> method, details |-> details, evidence |-> evidence]

\* Conductor._execute_verify_loop
execute_verify_loop(registry, verify_enabled, execution_results) ==
    IF ~verify_enabled
    THEN VerificationResult(TRUE, "disabled", <<<<None, "Verification disabled">>>>, << >>)
    ELSE LET acc == verify_results(registry,
                        [any_blocking_fail |-> FALSE, verify_details |-> << >>,
                         evidence |-> << >>],
                        execution_results, 1)
         IN IF acc.any_blocking_fail
            THEN VerificationResult(FALSE, "deterministic_checks", acc.verify_details,
                                    acc.evidence)
            ELSE VerificationResult(TRUE, "deterministic_checks",
                     IF acc.verify_details = << >> THEN <<<<None, "All checks passed">>>>
                     ELSE acc.verify_details,
                     acc.evidence)

\* The execution results handed to the verify loop.
Checked(success, tool_name, inputs, outputs) ==
    [success |-> success, tool_name |-> tool_name, inputs |-> inputs,
     outputs |-> outputs]

NormalizeInputs == [kind |-> "normalize_email", email |-> " A@X.com "]

DenylistInputs == [kind |-> "email.count_distinct_domains", denylist_domains |-> <<"x.com">>]

CheckedResults ==
    {Checked(TRUE, "Normalize.Email", NormalizeInputs, [normalized_email |-> <<"A@X.com">>]),
     Checked(TRUE, "Normalize.Email", NormalizeInputs, [normalized_email |-> <<"b@y.org">>]),
     Checked(TRUE, "Normalize.Email", NormalizeInputs, [final_answer |-> <<"a@x.com">>]),
     Checked(FALSE, "Normalize.Email", NormalizeInputs, [normalized_email |-> <<"b@y.org">>]),
     Checked(TRUE, "Extract.Emails", [kind |-> "extract"], [emails |-> <<"a@x.com">>]),
     Checked(TRUE, "Extract.Emails", [kind |-> "extract"], [emails |-> <<"a@x.com", "a@x">>]),
     Checked(TRUE, "Email.CountDistinctDomains", DenylistInputs, [distinct_domains |-> <<"y.org">>]),
     Checked(TRUE, "Email.CountDistinctDomains", DenylistInputs, [distinct_domains |-> <<"x.com">>]),
     Checked(TRUE, "Ghost.Tool", DenylistInputs, [distinct_domains |-> <<"x.com">>])}

MaxResults == 3

\* The lists of at most MaxResults checked results.
ResultLists == UNION {[1..n -> CheckedResults] : n \in 0..MaxResults}

VerifyModes == {"blocking", "non_blocking", "off"}

VerifiedContract(name, verify_mode) ==
    ToolContract(name, "1.0.0", << >>, << >>, {}, {}, "high", "tiny", 5, verify_mode)

ExecuteVerifyLoop ==
    /\ ~verification.returned
    /\ \E verify_enabled \in BOOLEAN, execution_results \in ResultLists :
          LET r == execute_verify_loop(regA, verify_enabled, execution_results)
          IN verification' = [verify_enabled |-> verify_enabled,
                              execution_results |-> execution_results,
                              returned |-> TRUE, passed |-> r.passed,
                              method |-> r.method, details |-> r.details,
                              evidence |-> r.evidence]
    /\ UNCHANGED <<world, probes, depends, regA, regB, ask, picked,
                   db, capability_budget, req, trace, log, other, canon, conn>>

InitVerify ==
    /\ world = World0
    /\ probes = << >>
    /\ depends = << >>
    /\ \E n, e, c \in VerifyModes :
          regA = <<VerifiedContract("Normalize.Email", n),
                   VerifiedContract("Extract.Emails", e),
                   VerifiedContract("Email.CountDistinctDomains", c)>>
    /\ regB = regA
    /\ ask = [type |-> "REPORT", payload |-> << >>, seed |-> 0]
    /\ picked = << >>
    /\ db = EmptyDb
    /\ capability_budget = NoBudget
    /\ req = NoRequest
    /\ trace = NoTrace
    /\ log = << >>
    /\ other = OtherIdle
    /\ canon = NoCanon
    /\ verification = NoVerification
    /\ conn = ConnIdle

NextVerify == ExecuteVerifyLoop

SpecVerify == InitVerify /\ [][NextVerify]_vars

(***************************************************************************)
(* core/database.py : the methods of IRDatabase on the shared connection,  *)
(* statement by statement, called from two threads                         *)
(***************************************************************************)
\* The statements of a method in program order. "acquire" and "release" are
\* the entry and the exit of `with self._lock:`; the others use self.conn or
\* a cursor of it.
MethodSteps(method) ==
    CASE method = "create_entity" ->
            <<"cursor", "acquire", "cursor", "execute", "commit", "release">>
      [] method \in {"create_assertion", "create_obligation", "update_obligation_status"} ->
            <<"acquire", "cursor", "execute", "commit", "release">>
      [] method \in {"get_assertions_by_subject", "get_obligations_by_status"} ->
            <<"acquire", "cursor", "execute", "release", "fetchall">>
      [] OTHER -> << >>

StoreMethods ==
    {"create_entity", "create_assertion", "create_obligation",
     "update_obligation_status", "get_assertions_by_subject",
     "get_obligations_by_status"}

\* The statements that use the connection.
ConnectionSteps == {"cursor", "execute", "commit", "fetchall"}

\* A thread enters a method of the store.
CallStore(t) ==
    /\ conn.method[t] = "none"
    /\ \E method \in StoreMethods :
          conn' = [conn EXCEPT !.method[t] = method, !.pc[t] = 1]
    /\ UNCHANGED <<world, probes, depends, regA, regB, ask, picked,
                   db, capability_budget, req, trace, log, other, canon, verification>>

\* A thread runs its next statement; acquiring the RLock waits while the
\* other thread holds it, and the method returns after its last statement.
StepStore(t) ==
    /\ conn.method[t] # "none"
    /\ LET steps == MethodSteps(conn.method[t])
           step == steps[conn.pc[t]]
           returned == conn.pc[t] = Len(steps)
           moved == [conn EXCEPT !.pc[t] = IF returned THEN 0 ELSE @ + 1,
                                 !.method[t] = IF returned THEN "none" ELSE @]
       IN CASE step = "acquire" ->
                  /\ conn.lock \in {0, t}
                  /\ conn' = [moved EXCEPT !.lock = t]
            [] step = "release" ->
                  conn' = [moved EXCEPT !.lock = 0]
            [] OTHER ->
                  conn' = [moved EXCEPT
                             !.last = [thread |-> t, method |-> conn.method[t],
                                       step |-> step, held |-> conn.lock = t]]
    /\ UNCHANGED <<world, probes, depends, regA, regB, ask, picked,
                   db, capability_budget, req, trace, log, other, canon, verification>>

InitLock ==
    /\ world = World0
    /\ probes = << >>
    /\ depends = << >>
    /\ regA = << >>
    /\ regB = << >>
    /\ ask = [type |-> None, payload |-> << >>, seed |-> 0]
    /\ picked = << >>
    /\ ConductorIdle

NextLock == \E t \in Threads : CallStore(t) \/ StepStore(t)

SpecLock == InitLock /\ [][NextLock]_vars

(***************************************************************************)
(* main.py : one request after another on the same store                   *)
(***************************************************************************)
\* What the requests of a client that submits one obligation at a time carry.
SeqBatches ==
    {<<ob>> : ob \in {Math, MathErr, Count, NameSave, NameRead, PlanSeq,
                      Guarded(PlanSeq, FailingGuardrails), PlanMissing,
                      SkillOb("math_count"), WorkflowOb("then"),
                      WorkflowOb("fail"), Normalize}}

SeqBudgets == {<< >>, [max_tool_runs |-> 1], [max_toolsmith_calls |-> 1]}

SeqBegin == ProcessRequestBeginFrom(SeqBatches, SeqBudgets)

\* process_request has returned and the next call of execute_obligations
\* starts on the same store.
NextCall ==
    /\ req.phase \in {"done", "raised"}
    /\ SwitchThread

\* os.environ changes between two steps of the conductor.
EnvChanges == \E x \in DOMAIN world.env : SetEnv(x)

NextSeq == SeqBegin \/ ExecutePlanLoop \/ ProcessRequestEnd \/ NextCall \/ EnvChanges

SpecSeq == Init /\ [][NextSeq]_vars

(***************************************************************************)
(* main.py : the name saved and read by the requests of one MVPAPI         *)
(***************************************************************************)
NameSaveBob == Ob("ACHIEVE", [state |-> "status.name", value |-> "Bob"])

\* A save without a value: not the direct save.
NameSaveEmpty == Ob("ACHIEVE", [state |-> "status.name", value |-> ""])

NameBatches ==
    UNION {[1..n -> {NameRead, NameSave, NameSaveBob, NameSaveEmpty, Math}] :
              n \in 1..MaxBatch}

NameBegin == ProcessRequestBeginFrom(NameBatches, {<< >>})

\* The second execute_obligations call on the same MVPAPI.
NameCall ==
    /\ req.phase \in {"done", "raised"}
    /\ other.req.phase = "idle"
    /\ SwitchThread

NextName == NameBegin \/ ExecutePlanLoop \/ ProcessRequestEnd \/ NameCall

SpecName == Init /\ [][NextName]_vars

(***************************************************************************)
(* Calls whose prepared inputs differ only in whitespace, on one store.    *)
(***************************************************************************)
\* The letter with a trailing blank: two characters.
CountPadded ==
    Ob("REPORT", [kind |-> "count", letter |-> "r ", word |-> "strawberry"])

MathPadded == Ob("REPORT", [kind |-> "math", expr |-> " 2+2 "])

PaddedBatches ==
    UNION {[1..n -> {Count, CountPadded, Math, MathPadded}] : n \in 1..MaxBatch}

PaddedBegin == ProcessRequestBeginFrom(PaddedBatches, {<< >>})

NextPadded == PaddedBegin \/ ExecutePlanLoop \/ ProcessRequestEnd \/ NameCall

SpecPadded == Init /\ [][NextPadded]_vars

(***************************************************************************)
(* core/cache.py : canonicalize_inputs on input maps with their key order  *)
(* and the characters of their strings                                     *)
(***************************************************************************)
\* Python values: a str is its characters, a dict its items in insertion
\* order, a list its elements.
VStr(s) == [t |-> "str", s |-> s]

VInt(n) == [t |-> "int", n |-> n]

VNone == [t |-> "none"]

VList(elems) == [t |-> "list", elems |-> elems]

VDict(items) == [t |-> "dict", items |-> items]

Item2(k, v) == [k |-> k, v |-> v]

\* The order of characters and of one-character keys.
CharRank(c) ==
    CASE c = " " -> 0
      [] c = "a" -> 1
      [] c = "b" -> 2
      [] c = "p" -> 3
      [] c = "q" -> 4
      [] OTHER -> 5

\* str < str
RECURSIVE StrLess(_, _)
StrLess(x, y) ==
    IF y = << >> THEN FALSE
    ELSE IF x = << >> THEN TRUE
    ELSE IF Head(x) # Head(y) THEN CharRank(Head(x)) < CharRank(Head(y))
    ELSE StrLess(Tail(x), Tail(y))

\* val.split(): the maximal runs of non-whitespace characters.
RECURSIVE str_split(_, _, _)
str_split(s, cur, acc) ==
    IF s = << >> THEN (IF cur = << >> THEN acc ELSE Append(acc, cur))
    ELSE IF Head(s) = " "
    THEN str_split(Tail(s), << >>, IF cur = << >> THEN acc ELSE Append(acc, cur))
    ELSE str_split(Tail(s), Append(cur, Head(s)), acc)

\* " ".join(words)
RECURSIVE str_join(_)
str_join(words) ==
    IF words = << >> THEN << >>
    ELSE IF Len(words) = 1 THEN words[1]
    ELSE words[1] \o <<" ">> \o str_join(Tail(words))

\* sorted(inputs.keys()): the items by ascending key.
sorted_items(items) ==
    SortSeq(items, LAMBDA x, y : CharRank(x.k) < CharRank(y.k))

\* sorted(list) raises TypeError unless the elements compare: here, all str
\* or all int (a list of at most one element compares nothing).
Comparable(elems) ==
    \/ Len(elems) <= 1
    \/ \A j \in 1..Len(elems) : elems[j].t = "str"
    \/ \A j \in 1..Len(elems) : elems[j].t = "int"

ValueLess(x, y) == IF x.t = "str" THEN StrLess(x.s, y.s) ELSE x.n < y.n

\* canonicalize_inputs(inputs)
RECURSIVE canonicalize_items(_)
canonicalize_items(inputs) ==
    IF inputs.t # "dict" THEN inputs
    ELSE LET kept == SelectSeq(sorted_items(inputs.items), LAMBDA it : it.v.t # "none")
             canon_val(val) ==
                CASE val.t = "dict" -> canonicalize_items(val)
                  [] val.t = "list" ->
                        LET elems == [j \in 1..Len(val.elems) |->
                                         IF val.elems[j].t = "dict"
                                         THEN canonicalize_items(val.elems[j])
                                         ELSE val.elems[j]]
                        IN IF Comparable(elems)
                           THEN VList(SortSeq(elems, ValueLess))
                           ELSE VList(elems)
                  [] val.t = "str" -> VStr(str_join(str_split(val.s, << >>, << >>)))
                  [] OTHER -> val
         IN VDict([j \in 1..Len(kept) |-> Item2(kept[j].k, canon_val(kept[j].v))])

\* json.dumps(value, sort_keys=True): the text is determined by the value with
\* the items of every dict, at any depth, in key order.
RECURSIVE json_sort_keys(_)
json_sort_keys(v) ==
    CASE v.t = "dict" ->
            LET items == sorted_items(v.items)
            IN VDict([j \in 1..Len(items) |->
                         Item2(items[j].k, json_sort_keys(items[j].v))])
      [] v.t = "list" -> VList([j \in 1..Len(v.elems) |-> json_sort_keys(v.elems[j])])
      [] OTHER -> v

\* compute_input_hash(tool_name, inputs, tool_version) without dependencies:
\* the cache_key is the sha256 of the JSON text, one key per text.
cache_key_of_items(tool_name, inputs, tool_version) ==
    [tool_name |-> tool_name,
     inputs |-> json_sort_keys(canonicalize_items(inputs)),
     tool_version |-> tool_version]

\* The input maps hashed.
CanonBases ==
    {VDict(<<Item2("q", VStr(<<"a", " ", "b">>)), Item2("p", VInt(1))>>),
     VDict(<<Item2("p", VDict(<<Item2("q", VStr(<<"a", " ", "b">>)),
                               Item2("p", VNone)>>))>>),
     VDict(<<Item2("p", VList(<<VStr(<<"a", " ", "b">>), VStr(<<"b">>)>>))>>),
     VDict(<<Item2("p", VList(<<VDict(<<Item2("q", VStr(<<"a">>)),
                                        Item2("p", VStr(<<"b">>))>>)>>))>>),
     VDict(<<Item2("p", VStr(<<"a", " ", "b">>)),
             Item2("q", VList(<<VInt(2), VInt(1)>>))>>),
     VDict(<<Item2("q", VList(<<VStr(<<"b">>), VStr(<<"a">>)>>)),
             Item2("p", VStr(<<"a", " ", "b">>))>>)}

\* A string with incidental whitespace added: in front, behind, or each
\* inner blank doubled.
RECURSIVE DoubleBlanks(_)
DoubleBlanks(s) ==
    IF s = << >> THEN << >>
    ELSE (IF Head(s) = " " THEN <<" ", " ">> ELSE <<Head(s)>>) \o DoubleBlanks(Tail(s))

Pads(s) == {s, <<" ">> \o s, s \o <<" ">>, DoubleBlanks(s)}

\* The orders in which n items can have been inserted.
Perms(n) == {f \in [1..n -> 1..n] : \A i, j \in 1..n : f[i] = f[j] => i = j}

\* The values that differ from v only in the order of map keys or in
\* incidental whitespace of strings, at any depth.
RECURSIVE Variants(_)
Variants(v) ==
    CASE v.t = "str" -> {VStr(p) : p \in Pads(v.s)}
      [] v.t = "list" ->
            {VList(e) : e \in {f \in [1..Len(v.elems) -> UNION {Variants(v.elems[j]) :
                                                                j \in 1..Len(v.elems)}] :
                                  \A j \in 1..Len(v.elems) : f[j] \in Variants(v.elems[j])}}
      [] v.t = "dict" ->
            LET n == Len(v.items)
                vals == {f \in [1..n -> UNION {Variants(v.items[j].v) : j \in 1..n}] :
                            \A j \in 1..n : f[j] \in Variants(v.items[j].v)}
            IN {VDict([j \in 1..n |-> Item2(v.items[pm[j]].k, f[pm[j]])]) :
                    pm \in Perms(n), f \in vals}
      [] OTHER -> {v}

\* compute_input_hash is called on an input map and on a variant of it.
HashVariant ==
    /\ ~canon.hashed
    /\ \E b \in Variants(canon.a) :
          canon' = [canon EXCEPT
                       !.b = b,
                       !.hashed = TRUE,
                       !.key_a = cache_key_of_items("Tool", canon.a, "1.0.0"),
                       !.key_b = cache_key_of_items("Tool", b, "1.0.0")]
    /\ UNCHANGED <<world, probes, depends, regA, regB, ask, picked,
                   db, capability_budget, req, trace, log, other, verification, conn>>

InitCanon ==
    /\ world = World0
    /\ probes = << >>
    /\ depends = << >>
    /\ regA = << >>
    /\ regB = << >>
    /\ ask = [type |-> None, payload |-> << >>, seed |-> 0]
    /\ picked = << >>
    /\ db = EmptyDb
    /\ capability_budget = NoBudget
    /\ req = NoRequest
    /\ trace = NoTrace
    /\ log = << >>
    /\ other = OtherIdle
    /\ verification = NoVerification
    /\ conn = ConnIdle
    /\ \E a \in CanonBases : canon = [NoCanon EXCEPT !.a = a, !.b = a]

NextCanon == HashVariant

SpecCanon == InitCanon /\ [][NextCanon]_vars

(***************************************************************************)
(* Properties.                                                             *)
(***************************************************************************)
\* The request has run to its trace.
Done == req.phase = "done" /\ Has(trace, "status")

\* Every result of the request so far, nested ones included.
FlatResults == flatten_execution_results(req.results)

HasResult(id) ==
    \E j \in 1..Len(FlatResults) : FlatResults[j].obligation_id = id

ResultOf(id) ==
    FlatResults[CHOOSE j \in 1..Len(FlatResults) : FlatResults[j].obligation_id = id]

\* The obligation whose trajectory a step identifier belongs to.
Parent(sid) == SubSeq(sid, 1, Len(sid) - 2)

IsStepOf(sid, pid) ==
    /\ Len(sid) = Len(pid) + 2
    /\ Parent(sid) = pid
    /\ sid[Len(pid) + 1] = 1

TrajectoryParent(p) ==
    /\ p.sub_results # << >>
    /\ IsStepOf(p.sub_results[1].obligation_id, p.obligation_id)

Halting(s) == ~s.success \/ Truthy(s.clarify_slot)

Executed(id, tool) ==
    \E m \in DOMAIN log : log[m].ev = "exec" /\ log[m].id = id /\ log[m].tool = tool

PassedGate(id) ==
    \E m \in DOMAIN log : log[m].ev = "gate" /\ log[m].id = id /\ log[m].info = <<1>>

ObservedState(dep, w) ==
    IF dep.type = "env" THEN [env |-> w.env[dep.id]] ELSE [file |-> w.fs[dep.id]]

SameObserved(w1, w2) ==
    \A j \in 1..Len(depends) :
        ObservedState(depends[j], w1) = ObservedState(depends[j], w2)

\* C1: in a request with max_tool_runs = N, once the tool_runs counter has
\* reached N, every obligation that then reaches the budget gate is refused:
\* its result is unsuccessful with status budget_exceeded, and for it neither
\* the cache is looked up nor a tool executed.
C1_ExhaustedQuotaClosesGate ==
    Has(req.capability_budgets, "max_tool_runs") =>
        \A k \in DOMAIN log :
            (/\ log[k].ev = "gate"
             /\ \E j \in 1..(k - 1) :
                   log[j].n >= req.capability_budgets["max_tool_runs"])
            => /\ log[k].info = <<0>>
               /\ \A m \in DOMAIN log :
                     log[m].id = log[k].id => log[m].ev \notin {"lookup", "exec"}
               /\ HasResult(log[k].id) =>
                     /\ ~ResultOf(log[k].id).success
                     /\ Get(ResultOf(log[k].id).outputs, "status") = "budget_exceeded"

\* C2: a batch that parsed gets the plan loop once per obligation, in
\* submission order, and one top-level result per obligation: whatever an
\* earlier obligation did, no exception ends the request and the later
\* obligations are attempted.
C2_EveryObligationAttempted ==
    /\ req.phase # "raised"
    /\ Len(req.results) <= Len(req.ids)
    /\ \A j \in 1..Len(req.results) : req.results[j].obligation_id = req.ids[j]
    /\ Done => Len(req.results) = Len(req.obligations)

\* C2 witness: the first obligation's tool raised inside the plan loop, and
\* the second obligation was still executed and succeeded.
C2_Witness ==
    /\ Done
    /\ Len(req.results) = 2
    /\ req.results[1].error = "Plan loop failed"
    /\ req.results[2].success

\* C3: with the tool, inputs and version fixed, two calls return the same
\* cache_key exactly when no declared dependency's observed state (a file's
\* mtime or size, an env variable's value, a db file's mtime or size) differs
\* between them.
C3_KeyTracksDependencyState ==
    \A i, j \in 1..Len(probes) :
        (probes[i].info.cache_key = probes[j].info.cache_key)
            <=> SameObserved(probes[i].world, probes[j].world)

\* Event k selects the tool of an earlier execution with the same cache key
\* (same tool, inputs, version, dependency state), and the obligation of that
\* execution ended successfully in between.
RepeatsResolvedRun(j, k) ==
    /\ log[j].ev = "exec"
    /\ log[k].tool = log[j].tool
    /\ log[k].info = log[j].info
    /\ \E o \in (j + 1)..(k - 1) : log[o].ev = "ok" /\ log[o].id = log[j].id

C5_SelectionIgnoresLoadOrder ==
    (Has(picked, "A") /\ Has(picked, "B")) => picked["A"] = picked["B"]

\* C5 witness: two different load orders, several validating candidates tied
\* on reliability, cost and latency, and both registries have answered.
C5_Witness ==
    /\ Has(picked, "A") /\ Has(picked, "B")
    /\ regA # regB
    /\ picked["A"] \in {"EvalMath", "EvalMath.Alt"}
    /\ regA[1] = EvalMathAlt /\ regB[1] = EvalMath

\* C6: in a trajectory, a step that ran before another step of the same
\* trajectory succeeded without a clarify slot; a step whose result is
\* unsuccessful or carries a clarify slot is the last one, and the parent's
\* result is unsuccessful and carries that step's clarify slot and error.
C6_StepFailureHaltsTrajectory ==
    /\ \A b \in DOMAIN log :
          log[b].ev = "step" =>
             \A a \in 1..(b - 1) :
                (log[a].ev = "step" /\ Parent(log[a].id) = Parent(log[b].id)) =>
                    /\ HasResult(log[a].id)
                    /\ ~Halting(ResultOf(log[a].id))
    /\ \A j \in 1..Len(FlatResults) :
          TrajectoryParent(FlatResults[j]) =>
             \A i \in 1..Len(FlatResults[j].sub_results) :
                Halting(FlatResults[j].sub_results[i]) =>
                    /\ i = Len(FlatResults[j].sub_results)
                    /\ ~FlatResults[j].success
                    /\ FlatResults[j].clarify_slot =
                          FlatResults[j].sub_results[i].clarify_slot
                    /\ FlatResults[j].error = FlatResults[j].sub_results[i].error

\* C6 witness: a trajectory whose second executed step failed while the
\* trajectory still listed a further obligation step.
C6_Witness ==
    \E j \in 1..Len(FlatResults) :
        /\ TrajectoryParent(FlatResults[j])
        /\ Len(FlatResults[j].sub_results) = 2
        /\ FlatResults[j].sub_results[1].success
        /\ ~FlatResults[j].sub_results[2].success
        /\ ~FlatResults[j].success
        /\ Cardinality({i \in 1..Len(FlatResults[j].outputs["trajectory"].steps) :
               FlatResults[j].outputs["trajectory"].steps[i].shape = "obligation"}) > 2

\* Where a worklist entry comes from orders the entries: the index in the
\* original steps list first, the place in the arm second.
OriginLess(o1, o2) == o1[1] < o2[1] \/ (o1[1] = o2[1] /\ o1[3] < o2[3])

\* Whether the value a branch refers to is empty, from the outputs of the
\* steps executed before the branch.
RefValueEmpty(when, prior) ==
    \/ when.idx \notin 1..Len(prior)
    \/ ~Has(prior[when.idx], when.key)
    \/ /\ when.key \notin NumberKeys
       /\ prior[when.idx][when.key] \in {<< >>, NoText}

ExpectedArm(when, prior) ==
    IF \/ when.op = "empty" /\ RefValueEmpty(when, prior)
       \/ when.op = "non_empty" /\ ~RefValueEmpty(when, prior)
    THEN 1 ELSE 2

\* The outputs of the steps of obligation pid executed before log entry c.
PriorOutputs(pid, c) ==
    LET m == Cardinality({a \in 1..(c - 1) :
                            log[a].ev = "step" /\ IsStepOf(log[a].id, pid)})
    IN [i \in 1..m |-> ResultOf(pid).sub_results[i].outputs]

\* The places in the chosen arm of the entries that become obligations.
ArmPlaces(chosen) ==
    {k \in 1..Len(chosen) : chosen[k].shape \in {"obligation", "typekind", "payload"}}

\* C7: the steps of a trajectory execute in the order of the original list
\* with the obligations of a branch's arm, in their listed order, in the
\* place of the branch; the arm is the one the branch's condition selects on
\* the prior outputs, no obligation of the other arm executes, and a
\* trajectory that ran to its end executed every obligation of the arm.
C7_BranchArmSplicedAtCursor ==
    /\ \A b \in DOMAIN log :
          log[b].ev = "step" =>
             /\ \A a \in 1..(b - 1) :
                   (log[a].ev = "step" /\ Parent(log[a].id) = Parent(log[b].id)) =>
                       OriginLess(log[a].info, log[b].info)
             /\ log[b].info[2] # 0 =>
                   \E c \in 1..(b - 1) :
                      /\ log[c].ev = "branch"
                      /\ log[c].id = Parent(log[b].id)
                      /\ log[c].info = <<log[b].info[1], log[b].info[2]>>
    /\ \A c \in DOMAIN log :
          (log[c].ev = "branch" /\ HasResult(log[c].id)) =>
             LET p == ResultOf(log[c].id)
                 br == p.outputs["trajectory"].steps[log[c].info[1]]
                 arm == log[c].info[2]
             IN /\ arm = ExpectedArm(br.when, PriorOutputs(log[c].id, c))
                /\ p.success =>
                      {log[b].info[3] : b \in {x \in DOMAIN log :
                          /\ log[x].ev = "step"
                          /\ IsStepOf(log[x].id, log[c].id)
                          /\ log[x].info[1] = log[c].info[1]
                          /\ log[x].info[2] # 0}}
                      = ArmPlaces(IF arm = 1 THEN br.then ELSE br.else)

\* C7 witness: a branch was processed, two obligations of its arm executed
\* after a step that preceded the branch, and a step that followed the branch
\* in the original list executed after them.
C7_Witness ==
    \E c, b1, b2, b3 \in DOMAIN log :
        /\ log[c].ev = "branch"
        /\ b1 < b2 /\ b2 < b3
        /\ \E a \in 1..(c - 1) : log[a].ev = "step" /\ IsStepOf(log[a].id, log[c].id)
        /\ \A b \in {b1, b2, b3} : log[b].ev = "step" /\ IsStepOf(log[b].id, log[c].id)
        /\ log[b1].info[2] # 0 /\ log[b2].info[2] # 0
        /\ log[b3].info[2] = 0 /\ log[b3].info[1] > log[c].info[1]

\* The submitted obligation with a given identifier.
SubmittedAs(id) ==
    req.obligations[CHOOSE j \in 1..Len(req.ids) : req.ids[j] = id]

\* C8: when the guardrail checker fails an ACHIEVE plan obligation with
\* guardrails, the obligation's stored status is failed, its result is
\* unsuccessful with why_not containing guardrail_failed and the checker's
\* justification list, and no assertion of that obligation is in the store
\* or in the trace.
C8_GuardrailFailureWritesNothing ==
    \A g \in DOMAIN log :
        (log[g].ev = "guard" /\ log[g].info[3] = 1) =>
            /\ log[g].id \in DOMAIN db.obls
            /\ db.obls[log[g].id].status = "failed"
            /\ HasResult(log[g].id)
            /\ ~ResultOf(log[g].id).success
            /\ Has(ResultOf(log[g].id).outputs, "why_not")
            /\ "guardrail_failed" \in Range(ResultOf(log[g].id).outputs["why_not"])
            /\ Has(ResultOf(log[g].id).outputs, "justification")
            /\ ResultOf(log[g].id).outputs["justification"]
                  = SelectSeq(SubmittedAs(log[g].id).payload["guardrails"], Violates)
            /\ ResultOf(log[g].id).assertions = << >>
            /\ \A a \in 1..Len(db.asserts) : db.asserts[a].id.ob # log[g].id
            /\ Done => \A a \in 1..Len(trace.assertions) :
                          trace.assertions[a].id.ob # log[g].id

\* C8 witness: the checker failed a plan obligation with guardrails and the
\* request ran to its trace.
C8_Witness ==
    /\ Done
    /\ \E g \in DOMAIN log :
          /\ log[g].ev = "guard" /\ log[g].info[3] = 1
          /\ HasResult(log[g].id)
          /\ Get(SubmittedAs(log[g].id).payload, "state") = "plan"
          /\ ResultOf(log[g].id).outputs["justification"] # << >>

\* C9: if any result of the request, nested ones included, carries a clarify
\* slot, the trace's final_answer is the empty string and the slot is in the
\* trace's clarify list.
C9_PendingClarifySuppressesAnswer ==
    Done =>
        \A j \in 1..Len(FlatResults) :
            Truthy(FlatResults[j].clarify_slot) =>
                /\ trace.final_answer = << >>
                /\ Has(trace, "clarify")
                /\ FlatResults[j].clarify_slot \in Range(trace["clarify"])

\* The identifiers of the obligations for which the plan loop found no
\* candidate tool or no candidate accepting the payload.
Unsatisfiable == {log[j].id : j \in {x \in DOMAIN log : log[x].ev = "missing"}}

\* The plan results in which the planner found an item of the requested
\* sequence unsatisfiable: no contract consumes it, or none of those that do
\* accepts its inputs.
PlannerUnsatisfied ==
    {j \in 1..Len(FlatResults) :
        Get(FlatResults[j].outputs, "error")
            \in {"missing_capability", "input_schema_mismatch"}}

TraceList(key) == IF Has(trace, key) THEN trace[key] ELSE << >>

\* C10: the trace holds exactly one missing_capability record and one
\* DISCOVER_OP obligation, with that record as its goal, for each obligation
\* (an obligation of the plan loop or an item the planner was asked to
\* sequence) that found no candidate tool or no candidate accepting its
\* payload, and none for any other obligation.
C10_OneRecordPerUnsatisfiable ==
    Done =>
        /\ Len(TraceList("missing_capabilities"))
              = Cardinality(Unsatisfiable) + Cardinality(PlannerUnsatisfied)
        /\ Len(TraceList("emitted_obligations"))
              = Len(TraceList("missing_capabilities"))
        /\ \A i \in 1..Len(TraceList("missing_capabilities")) :
              trace["emitted_obligations"][i].payload.goal
                  = trace["missing_capabilities"][i]
        /\ \A id \in Unsatisfiable :
              Cardinality({i \in 1..Len(TraceList("missing_capabilities")) :
                  /\ Has(trace["missing_capabilities"][i], "obligation_id")
                  /\ trace["missing_capabilities"][i].obligation_id = id}) = 1

\* The usage counters of the budget, as a tuple.
Counters(budget) == <<budget.tool_runs, budget.cache_misses, budget.toolsmith_calls>>

\* C11: during one process_request no usage counter of the budget ever
\* decreases: neither from one obligation of the request to the next nor,
\* for tool_runs, between any two steps of the plan loops, batches with
\* RUN_SKILL obligations carrying their own capability_budgets included.
C11_CountersNeverDecrease ==
    [][/\ (req.phase = "run" /\ req'.trace_id = req.trace_id) =>
              \A c \in 1..3 :
                  Counters(capability_budget')[c] >= Counters(capability_budget)[c]
       /\ \A j, k \in DOMAIN log' : j < k => log'[j].n <= log'[k].n]_vars

\* The tools executed for the running request up to its k-th logged step.
OwnExecs(k) == Cardinality({j \in 1..k : log[j].ev = "exec"})

\* The limit the running request itself submitted; negative when it set none.
OwnLimit(key) ==
    IF Has(req.capability_budgets, key) THEN req.capability_budgets[key] ELSE -1

\* C12: with two process_request calls running concurrently on the one
\* Conductor, each request's tool runs and cache misses are counted against
\* its own quota only: it executes no more tools than its own limits allow, it
\* is refused at the gate only when its own tool runs reached its own limit,
\* and the budget its trace reports holds its own limit and its own count.
C12_BudgetIsolatedPerRequest ==
    req.phase \in {"run", "done"} =>
        /\ \A key \in {"max_tool_runs", "max_cache_misses"} :
              OwnLimit(key) >= 0 => OwnExecs(Len(log)) <= OwnLimit(key)
        /\ \A k \in DOMAIN log :
              (log[k].ev = "gate" /\ log[k].info = <<0>>) =>
                  /\ OwnLimit("max_tool_runs") >= 0
                  /\ OwnExecs(k) >= OwnLimit("max_tool_runs")
        /\ \A j \in 1..Len(FlatResults) :
              Get(FlatResults[j].outputs, "status") = "budget_exceeded" =>
                  req.capability_budgets # << >>
        /\ Done =>
              /\ trace.capability_budget.max_tool_runs = OwnLimit("max_tool_runs")
              /\ trace.capability_budget.max_cache_misses = OwnLimit("max_cache_misses")
              /\ trace.capability_budget.tool_runs = OwnExecs(Len(log))

\* C13: two input maps that differ only in the order of map keys or in
\* incidental whitespace of string values, at the top level, in nested maps
\* or in elements of lists, get the same cache_key.
C13_KeyIgnoresOrderAndWhitespace ==
    canon.hashed => canon.key_a = canon.key_b

\* The entry of the planner's trajectory a worklist entry of origin o comes from.
EntryAt(steps, o) ==
    IF o[2] = 0 THEN steps[o[1]]
    ELSE IF o[2] = 1 THEN steps[o[1]].then[o[3]]
    ELSE steps[o[1]].else[o[3]]

\* The obligation steps executed from a trajectory, as positions of the log.
ObligationSteps ==
    {b \in DOMAIN log :
        /\ log[b].ev = "step"
        /\ HasResult(log[b].id)
        /\ HasResult(Parent(log[b].id))
        /\ EntryAt(ResultOf(Parent(log[b].id)).outputs["trajectory"].steps,
                   log[b].info).shape = "obligation"}

\* The payload the planner emitted for the step logged at b.
EmittedPayload(b) ==
    EntryAt(ResultOf(Parent(log[b].id)).outputs["trajectory"].steps,
            log[b].info).obligation.payload

\* The token in field k of the step logged at b refers to a step executed
\* before it and to a key of that step's outputs.
Resolvable(b, k) ==
    LET r == TemplateRef(EmittedPayload(b)[k])
        prior == PriorOutputs(Parent(log[b].id), b)
    IN r.idx \in 1..Len(prior) /\ Has(prior[r.idx], r.key)

\* The string form of the value the token in field k refers to.
Referred(b, k) ==
    LET r == TemplateRef(EmittedPayload(b)[k])
    IN StrOf(PriorOutputs(Parent(log[b].id), b)[r.idx][r.key])

TemplateFields(b) ==
    {k \in DOMAIN EmittedPayload(b) \cap StrKeys : IsTemplate(EmittedPayload(b)[k])}

\* The trajectory recorded for a parent is the one its planner emitted.
KeepsTemplates(b) ==
    LET p == ResultOf(Parent(log[b].id))
    IN p.tool_name = "Workflow.Planner" =>
          p.outputs["trajectory"] = workflow_planner(p.inputs)["trajectory"]

\* C14 as stated: every template token of an executed step's payload is
\* replaced by the string form of the referred output, so the recorded inputs
\* hold the literal and no token, and the recorded trajectory keeps the token.
C14_EveryTokenReplaced ==
    \A b \in ObligationSteps :
        /\ KeepsTemplates(b)
        /\ \A k \in TemplateFields(b) :
              Has(ResultOf(log[b].id).inputs, k) =>
                  /\ ~IsTemplate(ResultOf(log[b].id).inputs[k])
                  /\ Resolvable(b, k)
                  /\ ResultOf(log[b].id).inputs[k] = Referred(b, k)

\* C14 amended: a token that refers to a step executed before this one and
\* to a key present in that step's outputs is replaced by the string form of
\* the value; any other token is left in the inputs as it was emitted; the
\* recorded trajectory keeps every token.
C14_ResolvableTokensReplaced ==
    \A b \in ObligationSteps :
        /\ KeepsTemplates(b)
        /\ \A k \in TemplateFields(b) :
              Has(ResultOf(log[b].id).inputs, k) =>
                  IF Resolvable(b, k)
                  THEN /\ ~IsTemplate(ResultOf(log[b].id).inputs[k])
                       /\ ResultOf(log[b].id).inputs[k] = Referred(b, k)
                  ELSE ResultOf(log[b].id).inputs[k] = EmittedPayload(b)[k]

\* C14 witness: a step whose emitted payload holds {{STEP_1.result}} was
\* executed with the literal 4 that the first step produced.
C14_Witness ==
    \E b \in ObligationSteps :
        /\ "expr" \in TemplateFields(b)
        /\ Resolvable(b, "expr")
        /\ ResultOf(log[b].id).inputs["expr"] = "4"
        /\ ResultOf(log[b].id).success

\* The fields of the step logged at b that the planner emitted as a
\* structured reference.
RefFields(b) ==
    {k \in DOMAIN EmittedPayload(b) \cap RefKeys : EmittedPayload(b)[k].shape = "ref"}

\* The reference in field k of the step logged at b names a step executed
\* before it.
RefInRange(b, k) ==
    LET r == RefTarget(EmittedPayload(b)[k].ref)
    IN r.idx \in 1..Len(PriorOutputs(Parent(log[b].id), b))

\* The outputs of the step the reference names have the key it names.
RefKeyPresent(b, k) ==
    LET r == RefTarget(EmittedPayload(b)[k].ref)
    IN Has(PriorOutputs(Parent(log[b].id), b)[r.idx], r.key)

\* The raw value the reference in field k names.
RefValue(b, k) ==
    LET r == RefTarget(EmittedPayload(b)[k].ref)
    IN PriorOutputs(Parent(log[b].id), b)[r.idx][r.key]

\* C15 as stated: the inputs of every obligation step executed from a
\* trajectory hold no residual $ref object; every structured reference has
\* been replaced by the raw value of the key in the outputs of the step it
\* names.
C15_NoResidualRef ==
    \A b \in ObligationSteps : \A k \in RefFields(b) :
        Has(ResultOf(log[b].id).inputs, k) =>
            /\ ResultOf(log[b].id).inputs[k].shape = "value"
            /\ RefInRange(b, k)
            /\ RefKeyPresent(b, k)
            /\ ResultOf(log[b].id).inputs[k].value = RefValue(b, k)

\* C15 amended: a structured reference of the form STEP_i.key whose step i
\* was executed before this step is replaced by the raw value of key in that
\* step's outputs (null when the outputs have no such key); any other
\* structured reference stays in the inputs as the $ref object it was.
C15_InRangeRefReplaced ==
    \A b \in ObligationSteps : \A k \in RefFields(b) :
        Has(ResultOf(log[b].id).inputs, k) =>
            IF RefInRange(b, k)
            THEN IF RefKeyPresent(b, k)
                 THEN /\ ResultOf(log[b].id).inputs[k].shape = "value"
                      /\ ResultOf(log[b].id).inputs[k].value = RefValue(b, k)
                 ELSE ResultOf(log[b].id).inputs[k] = Null
            ELSE ResultOf(log[b].id).inputs[k] = EmittedPayload(b)[k]

\* C15 witness: a step emitted with {"$ref": "STEP_1.result"} ran with the
\* number 4 the first step produced, not with a text.
C15_Witness ==
    \E b \in ObligationSteps :
        /\ "emails" \in RefFields(b)
        /\ RefInRange(b, "emails")
        /\ ResultOf(log[b].id).tool_name = "Normalize.Email"
        /\ ResultOf(log[b].id).inputs["emails"] = Value(4)
        /\ ResultOf(log[b].id).success

\* The log positions of the steps executed for obligation pid, and the k-th
\* of them in execution order.
StepEvents(pid) ==
    {b \in DOMAIN log : log[b].ev = "step" /\ IsStepOf(log[b].id, pid)}

KthStep(pid, k) ==
    CHOOSE b \in StepEvents(pid) :
        Cardinality({a \in StepEvents(pid) : a <= b}) = k

\* The final_answer of a result, None when its outputs have none.
FinalAnswerOf(r) ==
    IF Has(r.outputs, "final_answer") THEN r.outputs["final_answer"] ELSE NoText

\* Every step executed for the trajectory of p completed successfully.
AllStepsCompleted(p) ==
    /\ TrajectoryParent(p)
    /\ p.error # "Trajectory execution failed"
    /\ \A b \in StepEvents(p.obligation_id) :
          HasResult(log[b].id) /\ ~Halting(ResultOf(log[b].id))

\* C16: when every step of a trajectory completes successfully, the parent's
\* outputs.executed_step_answers lists the final_answer of each executed
\* step in execution order, one entry per executed step, branch-inserted
\* steps included, and outputs.final_answer is the JSON encoding of that list.
C16_SummaryListsStepAnswers ==
    \A j \in 1..Len(FlatResults) :
        LET p == FlatResults[j]
            n == Cardinality(StepEvents(p.obligation_id))
        IN AllStepsCompleted(p) =>
              /\ Has(p.outputs, "executed_step_answers")
              /\ Len(p.outputs["executed_step_answers"]) = n
              /\ \A k \in 1..n :
                    p.outputs["executed_step_answers"][k] =
                        FinalAnswerOf(ResultOf(log[KthStep(p.obligation_id, k)].id))
              /\ p.outputs["final_answer"] =
                    json_dumps(p.outputs["executed_step_answers"])

\* C16 witness: a trajectory whose steps all succeeded, two of them inserted
\* by a branch, with at least two different answers in its summary.
C16_Witness ==
    \E j \in 1..Len(FlatResults) :
        LET p == FlatResults[j]
        IN /\ AllStepsCompleted(p)
           /\ p.success
           /\ Len(p.outputs["executed_step_answers"]) >= 3
           /\ \E b \in StepEvents(p.obligation_id) : log[b].info[2] # 0
           /\ \E k \in 2..Len(p.outputs["executed_step_answers"]) :
                 /\ p.outputs["executed_step_answers"][k] # NoText
                 /\ p.outputs["executed_step_answers"][k] #
                       p.outputs["executed_step_answers"][1]

\* The steps that carry a tool preference and for which a tool was selected,
\* as positions of the log.
PreferringSteps ==
    {b \in ObligationSteps :
        /\ EntryAt(ResultOf(Parent(log[b].id)).outputs["trajectory"].steps,
                   log[b].info).derived_from # None
        /\ \E m \in DOMAIN log : log[m].ev = "select" /\ log[m].id = log[b].id}

Preferred(b) ==
    EntryAt(ResultOf(Parent(log[b].id)).outputs["trajectory"].steps,
            log[b].info).derived_from

\* The tool selected for the step logged at b.
SelectedFor(b) ==
    log[CHOOSE m \in DOMAIN log : log[m].ev = "select" /\ log[m].id = log[b].id].tool

StepType(b) ==
    EntryAt(ResultOf(Parent(log[b].id)).outputs["trajectory"].steps,
            log[b].info).obligation.type

ResolvedPayload(b) ==
    resolve_templates(EmittedPayload(b), PriorOutputs(Parent(log[b].id), b))

\* The requires list of the payload's constraints.
RequiresOf(payload) ==
    IF Has(payload, "constraints") /\ Has(payload["constraints"], "requires")
    THEN payload["constraints"]["requires"] ELSE << >>

\* The preference of the step logged at b is registered, a candidate for the
\* step's type, accepts the resolved payload and declares every required
\* capability.
PreferenceValid(b) ==
    LET P == get_tool(Tools, Preferred(b))
        cands == find_tools_for_obligation(Tools, StepType(b))
        req_sup == RequiresOf(ResolvedPayload(b))
    IN /\ P # NoTool
       /\ \E j \in 1..Len(cands) : cands[j].name = Preferred(b)
       /\ validate_tool_inputs(P, ResolvedPayload(b))
       /\ \A j \in 1..Len(req_sup) : req_sup[j] \in P.supports

BestFor(b) ==
    select_best_tool(Tools, StepType(b), ResolvedPayload(b), SeedOf(log[b].id))

\* C17 as stated: the tool executed for a step with preference P is P if and
\* only if P is registered, a candidate, accepts the payload and declares the
\* required capabilities; otherwise it is the tool select_best_tool returns.
C17_PreferenceHonouredIffValid ==
    \A b \in PreferringSteps :
        /\ (SelectedFor(b) = Preferred(b)) <=> PreferenceValid(b)
        /\ ~PreferenceValid(b) => SelectedFor(b) = BestFor(b).name

\* C17 amended: when P is registered, a candidate, accepts the payload and
\* declares the required capabilities, the tool executed is P; in every other
\* case it is the tool select_best_tool returns, which can be P itself.
C17_ValidPreferenceHonoured ==
    \A b \in PreferringSteps :
        /\ PreferenceValid(b) => SelectedFor(b) = Preferred(b)
        /\ ~PreferenceValid(b) => SelectedFor(b) = BestFor(b).name

\* C17 witness: a valid preference for a tool that normal selection would
\* not choose was honoured and the tool executed.
C17_Witness ==
    \E b \in PreferringSteps :
        /\ PreferenceValid(b)
        /\ BestFor(b).name # Preferred(b)
        /\ SelectedFor(b) = Preferred(b)
        /\ Executed(log[b].id, Preferred(b))

\* The step of process_request that rejects a batch at parsing.
Rejects ==
    /\ req'.trace_id # req.trace_id
    /\ req'.phase = "done"
    /\ \E j \in 1..Len(req'.obligations) : ~parse_ok(req'.obligations[j])

\* C18: when the submitted batch fails validation or parsing, process_request
\* returns the error response and nothing else has run: the store holds no
\* new event, obligation, assertion or tool run, no tool has executed and the
\* conductor's budget is unchanged.
C18_RejectedBatchWritesNothing ==
    [][Rejects => /\ trace' = create_error_response(req'.trace_id)
                  /\ db' = db
                  /\ capability_budget' = capability_budget
                  /\ log' = << >>]_vars

\* The stored status of an obligation, None when the store has no such
\* obligation.
StoredStatus(id) == IF id \in DOMAIN db.obls THEN db.obls[id].status ELSE None

\* C19: at the end of process_request every obligation whose execution
\* result has success = true has stored status 'resolved', whatever its type.
C19_SuccessIsStoredResolved ==
    Done => \A j \in 1..Len(FlatResults) :
               (FlatResults[j].success
                /\ FlatResults[j].obligation_id \in DOMAIN db.obls) =>
                   StoredStatus(FlatResults[j].obligation_id) = "resolved"

\* C20: at the end of process_request every submitted obligation whose
\* result is unsuccessful and carries no clarify slot has stored status
\* 'failed'; none of them is left 'active'.
C20_FailureIsStoredFailed ==
    Done => \A k \in 1..Len(req.ids) :
               (~req.results[k].success /\ ~Truthy(req.results[k].clarify_slot)) =>
                   StoredStatus(req.ids[k]) = "failed"

\* Every obligation stored as resolved stays stored as resolved over a step.
ResolvedKept ==
    \A id \in DOMAIN db.obls :
        db.obls[id].status = "resolved" =>
            /\ id \in DOMAIN db'.obls
            /\ db'.obls[id].status = "resolved"

\* Within the steps a request has taken, no status is written for an
\* obligation after 'resolved' was written for it.
NoWriteAfterResolved(h) ==
    \A j, k \in DOMAIN h :
        (/\ j < k
         /\ h[j].ev = "status" /\ h[j].tool = "resolved"
         /\ h[k].ev = "status" /\ h[k].id = h[j].id) => h[k].tool = "resolved"

\* C21: once an obligation's stored status is 'resolved', no later step of
\* the same request and no later request changes that obligation's status.
C21_ResolvedIsFinal ==
    [][ResolvedKept /\ NoWriteAfterResolved(log')]_vars

\* C21 witness: a later request has run to its end on a store that holds an
\* obligation an earlier request resolved, and has resolved one of its own.
C21_Witness ==
    /\ Done
    /\ other.req.phase = "done"
    /\ \E id \in DOMAIN db.obls :
          /\ id[1] = other.req.trace_id
          /\ db.obls[id].status = "resolved"
    /\ \E id \in DOMAIN db.obls :
          /\ id[1] = req.trace_id
          /\ Len(id) > 2
          /\ db.obls[id].status = "resolved"

\* The results of the request that ran before this one.
EarlierResults == flatten_execution_results(other.req.results)

\* The earlier request executed the tool for the obligation of its lookup a
\* and the run succeeded.
EarlierRun(a) ==
    /\ other.log[a].ev = "lookup"
    /\ \E m \in DOMAIN other.log :
          /\ other.log[m].ev = "exec"
          /\ other.log[m].id = other.log[a].id
    /\ \E j \in 1..Len(EarlierResults) :
          /\ EarlierResults[j].obligation_id = other.log[a].id
          /\ EarlierResults[j].success

\* The lookup b of this request is for the tool and inputs of the earlier
\* lookup a, the tool's contract declares env:X, and X has another value now.
SameRunAfterEnvChange(a, b) ==
    /\ EarlierRun(a)
    /\ log[b].ev = "lookup"
    /\ log[b].tool = other.log[a].tool
    /\ Dep("env", "X") \in Range(DeclaredDependsOn(log[b].tool))
    /\ HasResult(log[b].id)
    /\ \E j \in 1..Len(EarlierResults) :
          /\ EarlierResults[j].obligation_id = other.log[a].id
          /\ EarlierResults[j].inputs = ResultOf(log[b].id).inputs
    /\ log[b].info[1]["X"] # other.log[a].info[1]["X"]

\* The cache key logged when the tool was selected for obligation id.
KeyIn(h, id) ==
    h[CHOOSE m \in DOMAIN h : h[m].ev = "select" /\ h[m].id = id].info[1]

\* C22: for a tool whose contract declares depends_on [env:X], a run made
\* after the value of X changed is not served from the cache: its
\* depends_on_hash differs from the earlier run's and the tool is executed
\* again.
C22_EnvChangeInvalidates ==
    \A a \in DOMAIN other.log : \A b \in DOMAIN log :
        SameRunAfterEnvChange(a, b) =>
            /\ ~ResultOf(log[b].id).cache_hit
            /\ Executed(log[b].id, log[b].tool)
            /\ KeyIn(log, log[b].id).depends_on_hash #
                  KeyIn(other.log, other.log[a].id).depends_on_hash

\* C23: two independent runs of the same batch against the same registry
\* select the same tool for every obligation, for every registry and batch.
C23_RunsSelectSameTool ==
    (Has(picked, "first") /\ Has(picked, "second")) =>
        picked["first"].tool = picked["second"].tool

\* The candidates of registry A that pass input validation for the request.
ValidCandidates ==
    SelectSeq(find_tools_for_obligation(regA, ask.type),
              LAMBDA tool : validate_tool_inputs(tool, ask.payload))

\* C24: among the candidates that pass input validation and have the
\* reliability and the cost of the selected tool, none has a strictly lower
\* latency_ms than the selected tool.
C24_FasterToolSelected ==
    (Has(picked, "A") /\ picked["A"] # None) =>
        LET t == get_tool(regA, picked["A"])
        IN \A j \in 1..Len(ValidCandidates) :
              (/\ ValidCandidates[j].reliability = t.reliability
               /\ ValidCandidates[j].cost = t.cost) =>
                  ValidCandidates[j].latency_ms >= t.latency_ms

\* The verify mode of the tool of a checked result.
ModeOf(result) ==
    LET tool == get_tool(regA, result.tool_name)
    IN IF tool = NoTool THEN "none" ELSE tool.verify_mode

\* The checked results without those of non_blocking tools.
WithoutNonBlocking ==
    SelectSeq(verification.execution_results,
              LAMBDA result : ModeOf(result) # "non_blocking")

\* A mismatch was recorded for a tool of the given verify mode.
MismatchOfMode(mode) ==
    \E j \in 1..Len(verification.evidence) :
        /\ verification.evidence[j].comparison_result = "mismatch"
        /\ get_tool(regA, verification.evidence[j].tool_name).verify_mode = mode

\* C25: with verification enabled, when the verify loop returns passed false
\* a blocking tool has a recorded mismatch, and the results of the
\* non_blocking tools can be left out without changing that: no mismatch of
\* a non_blocking tool is what makes verification fail.
C25_NonBlockingNeverFails ==
    (verification.returned /\ verification.verify_enabled /\ ~verification.passed) =>
        /\ MismatchOfMode("blocking")
        /\ ~execute_verify_loop(regA, TRUE, WithoutNonBlocking).passed

\* C25 witness: a non_blocking tool had a mismatch and verification passed.
C25_Witness ==
    /\ verification.returned
    /\ verification.verify_enabled
    /\ MismatchOfMode("non_blocking")
    /\ ~MismatchOfMode("blocking")
    /\ verification.passed
    /\ verification.method = "deterministic_checks"

\* C26: every successful execution result of the plan loop, nested results
\* included, has a final_answer text in its outputs, whichever tool or
\* direct special case produced it.
C26_SuccessHasFinalAnswer ==
    \A j \in 1..Len(FlatResults) :
        FlatResults[j].success => HasText(FlatResults[j].outputs, "final_answer")

\* The snapshot entries of a probe that report a set env variable.
EnvEntries(p) ==
    {d \in DOMAIN p.info.dependency_snapshot :
        d.type = "env" /\ p.info.dependency_snapshot[d].t = "env"}

\* C27: for every value of an env dependency, no field of its entry in the
\* dependency snapshot is the full raw value of the variable: the entry
\* holds a digest and a short preview only.
C27_SnapshotHidesEnvValue ==
    \A j \in 1..Len(probes) :
        \A d \in EnvEntries(probes[j]) :
            LET entry == probes[j].info.dependency_snapshot[d]
                raw == probes[j].world.env[d.id].chars
            IN entry.hash # raw /\ entry.preview # raw

\* The DISCOVER_OP obligations the request has stored.
DiscoverOps ==
    {id \in DOMAIN db.obls : db.obls[id].kind = "DISCOVER_OP" /\ id[1] = req.trace_id}

\* C30: with max_toolsmith_calls = N, a request never stores more than N
\* DISCOVER_OP obligations.
C30_DiscoverOpsWithinQuota ==
    (Done /\ Has(req.capability_budgets, "max_toolsmith_calls")) =>
        Cardinality(DiscoverOps) <= req.capability_budgets["max_toolsmith_calls"]

\* The selected tool of the result was executed and returned an error key,
\* its own or the one the executor makes of an exception.
ToolFailed(r) ==
    /\ r.tool_name # None
    /\ Executed(r.obligation_id, r.tool_name)
    /\ Has(execute_tool(r.tool_name, r.inputs), "error")

\* An assertion was written for the obligation.
AssertionWrittenFor(id) ==
    \/ \E m \in DOMAIN db.asserts : db.asserts[m].id.ob = id
    \/ \E m \in DOMAIN log : log[m].ev = "assert" /\ log[m].id = id

\* C28: when the selected tool returns an error key or raises, the result of
\* that obligation has success false and the tool's error, no assertion is
\* written for it, and no exception leaves the plan loop.
C28_ToolErrorStaysLocal ==
    \A j \in 1..Len(FlatResults) :
        ToolFailed(FlatResults[j]) =>
            /\ ~FlatResults[j].success
            /\ FlatResults[j].error
                  = execute_tool(FlatResults[j].tool_name, FlatResults[j].inputs)["error"]
            /\ FlatResults[j].assertions = << >>
            /\ ~AssertionWrittenFor(FlatResults[j].obligation_id)
            /\ req.phase # "raised"

\* C28 witness: the first obligation's tool raised, the second obligation's
\* tool returned an error key, and the request ran to its trace.
C28_Witness ==
    /\ Done
    /\ Len(req.results) = 2
    /\ ToolFailed(req.results[1])
    /\ req.results[1].error = "inputs['email'] must be a string"
    /\ ToolFailed(req.results[2])
    /\ req.results[2].error = "Division by zero"

\* The thread is between the first and the last statement on the connection
\* of the method it is in.
InFlight(t) ==
    /\ conn.method[t] # "none"
    /\ LET steps == MethodSteps(conn.method[t])
       IN /\ \E k \in 1..Len(steps) : k < conn.pc[t] /\ steps[k] \in ConnectionSteps
          /\ \E k \in 1..Len(steps) : k >= conn.pc[t] /\ steps[k] \in ConnectionSteps

\* C29: every statement of a store method on the shared connection (creating
\* the cursor, executing, fetching the rows, committing) runs while the
\* thread holds the database's lock, so no two threads are inside a store
\* operation on the connection at once.
C29_StoreStepsHoldLock ==
    /\ conn.last.held
    /\ \A t \in Threads : InFlight(t) => conn.lock = t

\* The satisfies list of the tool contains T literally, or a pattern T(kind)
\* whose kind is the kind of one of the tool's consumes entries.
SatisfiesType(tool, T) ==
    \E j \in 1..Len(tool.satisfies) :
        /\ tool.satisfies[j].type = T
        /\ \/ tool.satisfies[j].kind = None
           \/ tool.satisfies[j].kind \in Range(tool.consumes)

\* C31: for every obligation type T of the model, find_tools_for_obligation(T)
\* returns exactly the registered tools whose satisfies list contains T
\* literally or a pattern T(kind) with kind among the tool's consumes kinds.
C31_FindToolsMatchesPatterns ==
    Has(picked, "found") =>
        picked["found"] = SelectSeq(regA, LAMBDA tool : SatisfiesType(tool, ask.type))

\* The obligations a call has executed so far, each with its result and the
\* log of its call.
Executions(r, l) ==
    [j \in 1..Len(r.results) |->
        [ob |-> r.obligations[j], id |-> r.ids[j], res |-> r.results[j], log |-> l]]

\* The executions on the store in order: the earlier call's, then this call's.
NameHistory ==
    (IF other.req.phase = "done" THEN Executions(other.req, other.log) ELSE << >>)
        \o Executions(req, log)

\* Every call made on the store so far is one of the two in NameHistory.
NameHistoryComplete ==
    \A t \in Range(db.events) :
        t = req.trace_id \/ (other.req.phase = "done" /\ t = other.req.trace_id)

IsNameRead(ob) == ob.type = "REPORT" /\ Get(ob.payload, "kind") = "status.name"

IsNameSave(ob) ==
    /\ ob.type = "ACHIEVE"
    /\ Get(ob.payload, "state") = "status.name"
    /\ Has(ob.payload, "value")
    /\ ob.payload["value"] # ""

\* The positions before k where a name was saved.
SavesBefore(k) == {i \in 1..(k - 1) : IsNameSave(NameHistory[i].ob)}

RanTool(e) ==
    \E m \in DOMAIN e.log : e.log[m].id = e.id /\ e.log[m].ev \in {"select", "exec"}

\* C32: on one store, a REPORT of kind status.name executed before any name
\* was saved fails with clarify slot name and runs no tool; after an ACHIEVE
\* with state status.name and a non-empty value, every later REPORT of kind
\* status.name succeeds and answers the most recently saved value.
C32_NameReadFollowsSaves ==
    \A k \in 1..Len(NameHistory) :
        (NameHistoryComplete /\ IsNameRead(NameHistory[k].ob)) =>
            LET e == NameHistory[k]
            IN IF SavesBefore(k) = {}
               THEN /\ ~e.res.success
                    /\ e.res.clarify_slot = "name"
                    /\ e.res.tool_name = None
                    /\ ~RanTool(e)
               ELSE /\ e.res.success
                    /\ Has(e.res.outputs, "name")
                    /\ e.res.outputs["name"]
                          = <<NameHistory[CHOOSE i \in SavesBefore(k) :
                                 \A i2 \in SavesBefore(k) : i2 <= i].ob.payload["value"]>>

\* C32 witness: a read before any save asked for the name, two different
\* names were saved, and a later read answered the second.
C32_Witness ==
    /\ NameHistoryComplete
    /\ Len(NameHistory) = 4
    /\ IsNameRead(NameHistory[1].ob)
    /\ NameHistory[1].res.clarify_slot = "name"
    /\ IsNameSave(NameHistory[2].ob)
    /\ IsNameSave(NameHistory[3].ob)
    /\ NameHistory[2].ob # NameHistory[3].ob
    /\ IsNameRead(NameHistory[4].ob)
    /\ NameHistory[4].res.outputs = [name |-> <<NameHistory[3].ob.payload["value"]>>]

(***************************************************************************)
(* The HTTP endpoint's status code for a trace.                            *)
(***************************************************************************)
\* The messages that contain "No tools available" or "No suitable tool"
NoToolMessages == {"No tools available", "No suitable tool"}

\* api.classify_status: the loop over tool_runs stops at the first truncated
\* run and returns at the first run whose error names a missing tool
classify_status(t) ==
    LET answer == IF Has(t, "final_answer") THEN t["final_answer"] ELSE << >>
        runs == IF Has(t, "tool_runs") THEN t["tool_runs"] ELSE << >>
        truncated(j) == Get(runs[j].outputs, "status") = "truncated"
        no_tool(j) == runs[j].error \in NoToolMessages
        stops == {j \in 1..Len(runs) : truncated(j) \/ no_tool(j)}
        first == CHOOSE j \in stops : \A j2 \in stops : j <= j2
    IN IF answer # << >> /\ answer[1] = "Error: Obligation parsing failed" THEN 400
       ELSE IF Get(t, "status") \in {"clarify", "resolved"} THEN 200
       ELSE IF Get(t, "status") = "failed"
       THEN IF stops # {} /\ ~truncated(first) THEN 422
            ELSE IF stops # {} THEN 200
            ELSE IF answer # << >> /\ answer[1] \in NoToolMessages THEN 422
            ELSE 500
       ELSE 200

\* A result of the missing-capability path: no tool can satisfy the obligation
IsMissingCapability(r) ==
    ~r.success /\ Get(r.outputs, "status") = "missing_capability"

\* C33: the endpoint answers 422 for every finished request whose obligations
\* all ended as missing-capability failures.
C33_MissingCapabilityIs422 ==
    (/\ Done
     /\ req.results # << >>
     /\ \A j \in 1..Len(req.results) : IsMissingCapability(req.results[j]))
        => classify_status(trace) = 422

\* What executing the result's tool on the result's prepared inputs returns,
\* with the final answer the executor adds.
FreshOutputs(res) ==
    ensure_final_answer(res.tool_name, execute_tool(res.tool_name, res.inputs), << >>)

\* C34: every result served from the cache carries the outputs that executing
\* its tool on its own prepared inputs would have returned.
C34_CacheHitEqualsExecution ==
    \A k \in 1..Len(NameHistory) :
        NameHistory[k].res.cache_hit =>
            NameHistory[k].res.outputs = FreshOutputs(NameHistory[k].res)

\* C35: with verification enabled, a recorded mismatch of a blocking tool
\* makes the verify loop return passed false, whatever else was checked.
C35_BlockingMismatchFails ==
    (verification.returned /\ verification.verify_enabled /\ MismatchOfMode("blocking"))
        => ~verification.passed

\* The calls of executor.execute_tool made for the request so far: selected
\* tools, support tools and the guardrail checker.
ToolExecutions(kinds) == Cardinality({m \in DOMAIN log : log[m].ev \in kinds})

\* C36: with max_tool_runs set, the number of tool executions of the request
\* (selected tools, support tools and the guardrail checker together) never
\* exceeds it.
C36_ExecutionsWithinMaxToolRuns ==
    (req.phase \in {"run", "done"} /\ Has(req.capability_budgets, "max_tool_runs")) =>
        ToolExecutions({"exec", "support", "guard"})
            <= req.capability_budgets["max_tool_runs"]

\* The budget's limits are respected and no tool ran without a counted miss.
WithinBudget(b) ==
    /\ b.tool_runs <= b.cache_misses
    /\ b.max_tool_runs >= 0 => b.tool_runs <= b.max_tool_runs
    /\ b.max_cache_misses >= 0 => b.cache_misses <= b.max_cache_misses

Usage(b) == <<b.tool_runs, b.cache_misses>>

\* The results of the request that were served from the cache.
CacheHits == {j \in 1..Len(FlatResults) : FlatResults[j].cache_hit}

\* C37: at every logged point of a request processed alone on its Conductor,
\* and between its obligations, tool_runs <= cache_misses and both counters are
\* within the limits that are set; an executed miss raises each counter by
\* exactly one over its cache lookup, and a cache hit raises neither.
C37_CountersTrackMisses ==
    req.phase \in {"run", "done"} =>
        /\ WithinBudget(capability_budget)
        /\ \A k \in DOMAIN log : WithinBudget(log[k].budget)
        /\ \A k \in DOMAIN log :
              log[k].ev = "exec" =>
                  /\ k > 1
                  /\ log[k - 1].ev = "lookup"
                  /\ log[k - 1].id = log[k].id
                  /\ Usage(log[k].budget)
                        = <<log[k - 1].budget.tool_runs + 1,
                            log[k - 1].budget.cache_misses + 1>>
        /\ \A j \in CacheHits :
              \A k \in DOMAIN log :
                  (log[k].ev = "lookup" /\ log[k].id = FlatResults[j].obligation_id) =>
                      /\ k < Len(log)
                      /\ log[k + 1].ev # "exec"
                      /\ Usage(log[k + 1].budget) = Usage(log[k].budget)

\* C37 witness: under a tool-run limit one obligation of the finished request
\* executed its tool and a later one was served from the cache.
C37_Witness ==
    /\ Done
    /\ Has(req.capability_budgets, "max_tool_runs")
    /\ CacheHits # {}
    /\ capability_budget.tool_runs = 1
    /\ capability_budget.cache_misses = 1

\* C38: every run of the guardrail checker for a planning obligation comes
\* before the first executed trajectory step of that obligation, and a result
\* failed by the checker has no executed sub-steps.
C38_GuardrailsBeforeSteps ==
    \A g \in DOMAIN log :
        log[g].ev = "guard" =>
            /\ \A a \in 1..(g - 1) :
                  ~(log[a].ev = "step" /\ IsStepOf(log[a].id, log[g].id))
            /\ (log[g].info[3] = 1 /\ HasResult(log[g].id)) =>
                  ResultOf(log[g].id).sub_results = << >>

\* The logged branch evaluations of the trajectory of obligation pid.
BranchEvents(pid) == {m \in DOMAIN log : log[m].ev = "branch" /\ log[m].id = pid}

\* The obligations whose trajectory was run.
TrajectoryParents ==
    {log[m].id : m \in {x \in DOMAIN log : log[x].ev = "branch"}}
        \cup {Parent(log[m].id) : m \in {x \in DOMAIN log : log[x].ev = "step"}}

\* The most entries the worklist of these steps can ever hold: the steps and
\* both arms of every branch step.
MostEntries(steps) ==
    Len(steps)
        + SeqSum([j \in 1..Len(steps) |->
                    IF steps[j].shape = "branch"
                    THEN Len(steps[j].then) + Len(steps[j].else) ELSE 0])

\* C39: the worklist loop of every trajectory ends after finitely many
\* entries (no more than the steps and the arms of the planner's trajectory),
\* no worklist entry is processed twice and no branch step is evaluated twice.
C39_WorklistRunsEachEntryOnce ==
    \A pid \in TrajectoryParents :
        /\ \A a, b \in StepEvents(pid) :
              (log[a].info = log[b].info \/ log[a].id = log[b].id) => a = b
        /\ \A a, b \in BranchEvents(pid) :
              log[a].info[1] = log[b].info[1] => a = b
        /\ (HasResult(pid) /\ Has(ResultOf(pid).outputs, "trajectory")) =>
              Cardinality(StepEvents(pid) \cup BranchEvents(pid))
                  <= MostEntries(ResultOf(pid).outputs["trajectory"].steps)

\* C39 witness: a finished request evaluated a branch step, processed an
\* entry of the chosen arm and a step after it.
C39_Witness ==
    /\ Done
    /\ \E pid \in TrajectoryParents :
          /\ HasResult(pid)
          /\ \E c \in BranchEvents(pid), a, b \in StepEvents(pid) :
                /\ c < a /\ a < b
                /\ log[a].info[1] = log[c].info[1]
                /\ log[a].info[2] = log[c].info[2]
                /\ log[b].info[1] > log[c].info[1]

\* The tool runs written for obligation id.
Persisted(id) == \E m \in DOMAIN log : log[m].ev = "persist" /\ log[m].id = id

\* A tool run is written only after an execution whose result succeeded and
\* was no cache hit.
StoredOnlyAfterSuccess ==
    \A m \in DOMAIN log :
        log[m].ev = "persist" =>
            /\ Executed(log[m].id, log[m].tool)
            /\ HasResult(log[m].id) =>
                  /\ ResultOf(log[m].id).success
                  /\ ~ResultOf(log[m].id).cache_hit

====
